---- MODULE Spec2Model ----
(***************************************************************************)
(* Model of the Naijanews fetch pipelines:                                 *)
(*   scripts/fetch-news-free.py  (NewsFetcher.fetch_all_news, "free")      *)
(*   scripts/fetch-news.py       (NewsFetcher.fetch_all,      "live")      *)
(* and of the processor that reads the feed they write:                    *)
(*   scripts/process-data.py     (NigeriaNewsProcessor.process_all)        *)
(* and of the reports made of the processor's output:                      *)
(*   scripts/generate-reports.py (ReportGenerator)                         *)
(*                                                                         *)
(* Text (titles, summaries, keywords) is a sequence of one-character       *)
(* strings, so that clean_text, lower(), the punctuation filter, split()   *)
(* and slicing are computed character by character as the code does.       *)
(* A date string is a record of its zero-padded fields (see the date       *)
(* section).                                                               *)
(***************************************************************************)
EXTENDS Integers, Sequences, FiniteSets, TLC

VARIABLES
    pipeline,      \* "free": fetch-news-free.py, "live": fetch-news.py
    world,         \* the environment of the run: what the feeds may return
    pc,            \* position inside fetch_all_news / fetch_all
    src,           \* index of the next entry of Config.SOURCES to fetch
    all_articles,  \* the local list all_articles
    now,           \* the UTC wall clock read by datetime.utcnow()
    budget,        \* non-empty feeds the environment may still deliver
    ticks,         \* how often the clock has advanced in this run
    collected,     \* history: all_articles as passed to remove_duplicates
    deduped,       \* history: all_articles as returned by remove_duplicates
    uncapped,      \* history: all_articles just before the final slice
    fetched,       \* history: one record per feed fetched, in order
    ppc,           \* position inside process_all ("idle": not running)
    py311,         \* the interpreter is Python 3.11 or later
    news,          \* the articles of api/news.json, as load_articles returns them
    processed_articles,  \* the local list processed_articles
    analytics,     \* what generate_analytics returned
    trends,        \* what detect_trends returned
    sources_stats, \* what process_sources_stats returned
    files,         \* the output files on disk: what a reader finds in each
    rpc            \* position inside generate-reports.py ("idle": not running)

\* The variables of the processor
procvars == <<ppc, py311, news, processed_articles, analytics, trends, sources_stats>>

\* The variables of the fetch pipelines
fetchvars == <<pipeline, world, pc, src, all_articles, now, budget, ticks,
               collected, deduped, uncapped, fetched>>

\* The disk and the report generator
diskvars == <<files, rpc>>

vars == <<pipeline, world, pc, src, all_articles, now, budget, ticks,
          collected, deduped, uncapped, fetched,
          ppc, py311, news, processed_articles, analytics, trends, sources_stats,
          files, rpc>>

----------------------------------------------------------------------------
(* Sequences *)

Min(a, b) == IF a < b THEN a ELSE b

Max(a, b) == IF a > b THEN a ELSE b

\* Python's s[:n]
Take(s, n) == SubSeq(s, 1, Min(n, Len(s)))

\* Python's s[n:] (n >= 0)
Drop(s, n) == SubSeq(s, n + 1, Len(s))

Range(s) == {s[i] : i \in 1..Len(s)}

\* Evaluation order: an operator's argument is computed only where it is
\* first used; Evaluated(value) uses it, and is TRUE
Evaluated(value) == value = value

\* Op(v), with v worked out once before Op uses it
Eager(Op(_), v) == CHOOSE result \in {Op(value) : value \in {v}} : TRUE

RECURSIVE Concat(_)
Concat(ss) == IF ss = <<>> THEN <<>> ELSE Head(ss) \o Concat(Tail(ss))

----------------------------------------------------------------------------
(* Characters *)

UpperChars == <<"A","B","C","D","E","F","G","H","I","J","K","L","M",
                "N","O","P","Q","R","S","T","U","V","W","X","Y","Z">>

LowerChars == <<"a","b","c","d","e","f","g","h","i","j","k","l","m",
                "n","o","p","q","r","s","t","u","v","w","x","y","z">>

DigitChars == <<"0","1","2","3","4","5","6","7","8","9">>

\* str.lower() on one character
LowerChar(c) ==
    IF c \in Range(UpperChars)
    THEN LowerChars[CHOOSE i \in 1..Len(UpperChars) : UpperChars[i] = c]
    ELSE c

\* str.lower()
Lower(s) == [i \in 1..Len(s) |-> LowerChar(s[i])]

\* the regular expression class \s (the model's texts hold no other blank)
IsSpace(c) == c = " "

\* the regular expression class \w
IsWordChar(c) ==
    c \in Range(UpperChars) \cup Range(LowerChars) \cup Range(DigitChars) \cup {"_"}

\* str.split(): the maximal runs of non-blank characters, one run a step
RECURSIVE SplitAcc(_, _)
SplitAcc(s, out) ==
    IF s = <<>> THEN out
    ELSE LET blanks == {i \in 1..Len(s) : IsSpace(s[i])}
             stop == IF blanks = {} THEN Len(s) + 1
                     ELSE CHOOSE i \in blanks : \A j \in blanks : i <= j
         IN  SplitAcc(SubSeq(s, stop + 1, Len(s)),
                      IF stop = 1 THEN out ELSE Append(out, SubSeq(s, 1, stop - 1)))

Split(s) == SplitAcc(s, <<>>)

\* ' '.join(words)
RECURSIVE JoinSpace(_)
JoinSpace(ws) ==
    IF ws = <<>> THEN <<>>
    ELSE IF Len(ws) = 1 THEN ws[1]
    ELSE ws[1] \o <<" ">> \o JoinSpace(Tail(ws))

\* needle in haystack (Python's substring test)
Contains(hay, needle) ==
    \E i \in 1..(Len(hay) - Len(needle) + 1) :
        SubSeq(hay, i, i + Len(needle) - 1) = needle

----------------------------------------------------------------------------
(* Utils.clean_text *)

\* End of the match of <[^>]+> at the head of s, 0 if it does not match there
TagEnd(s) ==
    IF s = <<>> \/ Head(s) # "<" THEN 0
    ELSE LET closes == {j \in 2..Len(s) : s[j] = ">"}
         IN  IF closes = {} THEN 0
             ELSE LET j == CHOOSE k \in closes : \A m \in closes : k <= m
                  IN  IF j >= 3 THEN j ELSE 0

\* re.sub(r'<[^>]+>', '', text): the text up to the next "<" is kept as it is
RECURSIVE StripTags(_)
StripTags(s) ==
    LET opens == {i \in 1..Len(s) : s[i] = "<"}
    IN  IF opens = {} THEN s
        ELSE LET p == CHOOSE i \in opens : \A j \in opens : i <= j
                 rest == SubSeq(s, p, Len(s))
             IN  IF TagEnd(rest) > 0
                 THEN SubSeq(s, 1, p - 1) \o StripTags(Drop(rest, TagEnd(rest)))
                 ELSE SubSeq(s, 1, p) \o StripTags(Drop(rest, 1))

\* End of the match of &[a-z]+; at the head of s, 0 if it does not match there
EntityEnd(s) ==
    IF s = <<>> \/ Head(s) # "&" THEN 0
    ELSE LET stops == {j \in 2..Len(s) : s[j] \notin Range(LowerChars)}
         IN  IF stops = {} THEN 0
             ELSE LET j == CHOOSE k \in stops : \A m \in stops : k <= m
                  IN  IF j >= 3 /\ s[j] = ";" THEN j ELSE 0

\* re.sub(r'&[a-z]+;', ' ', text): the text up to the next "&" is kept as it is
RECURSIVE ReplaceEntities(_)
ReplaceEntities(s) ==
    LET amps == {i \in 1..Len(s) : s[i] = "&"}
    IN  IF amps = {} THEN s
        ELSE LET p == CHOOSE i \in amps : \A j \in amps : i <= j
                 rest == SubSeq(s, p, Len(s))
             IN  IF EntityEnd(rest) > 0
                 THEN SubSeq(s, 1, p - 1) \o <<" ">>
                      \o ReplaceEntities(Drop(rest, EntityEnd(rest)))
                 ELSE SubSeq(s, 1, p) \o ReplaceEntities(Drop(rest, 1))

clean_text(text) ==
    IF text = <<>> THEN <<>>
    ELSE JoinSpace(Split(ReplaceEntities(StripTags(text))))

----------------------------------------------------------------------------
(* Utils.is_relevant and Config.KEYWORDS (the same list in both scripts) *)

KEYWORDS ==
  <<<<"n","i","g","e","r","i","a">>,
    <<"n","i","g","e","r","i","a","n">>,
    <<"n","a","i","r","a">>,
    <<"C","B","N">>,
    <<"c","e","n","t","r","a","l"," ","b","a","n","k">>,
    <<"i","n","f","l","a","t","i","o","n">>,
    <<"G","D","P">>,
    <<"e","c","o","n","o","m","y">>,
    <<"N","N","P","C">>,
    <<"c","r","u","d","e"," ","o","i","l">>,
    <<"p","e","t","r","o","l","e","u","m">>,
    <<"b","u","d","g","e","t">>,
    <<"d","e","b","t">>,
    <<"i","n","t","e","r","e","s","t"," ","r","a","t","e">>,
    <<"M","P","C">>,
    <<"m","o","n","e","t","a","r","y"," ","p","o","l","i","c","y">>,
    <<"e","x","c","h","a","n","g","e"," ","r","a","t","e">>,
    <<"L","a","g","o","s">>,
    <<"A","b","u","j","a">>,
    <<"F","G">>,
    <<"f","e","d","e","r","a","l"," ","g","o","v","e","r","n","m","e","n","t">>,
    <<"r","e","v","e","n","u","e">>,
    <<"e","x","p","o","r","t">>,
    <<"i","m","p","o","r","t">>,
    <<"t","r","a","d","e">>,
    <<"m","a","n","u","f","a","c","t","u","r","i","n","g">>,
    <<"a","g","r","i","c","u","l","t","u","r","e">>>>

\* A filter that passes every text but the empty one
is_relevant_any_text(text, keywords) == text # <<>>

is_relevant(text, keywords) ==
    IF text = <<>> THEN FALSE
    ELSE \E k \in 1..Len(keywords) : Contains(Lower(text), Lower(keywords[k]))

----------------------------------------------------------------------------
(* Dates.                                                                  *)
(*                                                                         *)
(* A datetime OBJECT is a record [yr, slot, us, aware, off]: the year, the *)
(* hour of the year (the zero-padded MM-DDTHH:MM:SS part, whose numeric    *)
(* order is its text order), the microseconds, whether the object carries  *)
(* a tzinfo, and its UTC offset in hours.                                  *)
(* A date STRING, as dt.isoformat() + 'Z' prints it, is a record           *)
(* [yr, slot, frac, sign, hh] of the text's fields:                        *)
(*   YYYY-<slot>[.ffffff][+hh:00 | -hh:00]Z                                *)
(* frac = 0 stands for no fraction printed, sign = "" for no offset.       *)
(***************************************************************************)

HoursPerYear == 365 * 24

DT(yr, slot, us) == [yr |-> yr, slot |-> slot, us |-> us, aware |-> FALSE, off |-> 0]

\* dt.isoformat() + 'Z': the fraction is printed only when us # 0, the
\* offset only for an aware object; nothing is converted to UTC
IsoZ(dt) ==
    [yr   |-> dt.yr,
     slot |-> dt.slot,
     frac |-> dt.us,
     sign |-> IF ~dt.aware THEN "" ELSE IF dt.off >= 0 THEN "+" ELSE "-",
     hh   |-> IF ~dt.aware THEN 0 ELSE IF dt.off >= 0 THEN dt.off ELSE 0 - dt.off]

\* dt - datetime.timedelta(hours=h)
MinusHours(dt, h) ==
    IF dt.slot >= h THEN [dt EXCEPT !.slot = @ - h]
    ELSE [dt EXCEPT !.yr = @ - 1, !.slot = @ + HoursPerYear - h]

\* The text after the seconds as a tuple whose order is the text's order:
\* the characters rank '+' < '-' < '.' < 'Z', digits are zero-padded
OffsetKey(s) ==
    IF s.sign = "+" THEN <<0, s.hh>>
    ELSE IF s.sign = "-" THEN <<1, s.hh>>
    ELSE <<3, 0>>

SuffixKey(s) ==
    IF s.frac # 0 THEN <<2, s.frac>> \o OffsetKey(s) ELSE OffsetKey(s) \o <<0, 0>>

TupleLess(a, b) ==
    \E i \in 1..Len(a) : a[i] < b[i] /\ \A j \in 1..(i - 1) : a[j] = b[j]

\* a < b as Python compares the two strings
StrLess(a, b) ==
    TupleLess(<<a.yr, a.slot>> \o SuffixKey(a), <<b.yr, b.slot>> \o SuffixKey(b))

\* The UTC hour a date string denotes (its printed offset applied)
UtcHour(s) ==
    s.yr * HoursPerYear + s.slot - (IF s.sign = "-" THEN 0 - s.hh ELSE s.hh)

\* The instant of a is strictly before the instant of b
InstantLess(a, b) ==
    \/ UtcHour(a) < UtcHour(b)
    \/ UtcHour(a) = UtcHour(b) /\ a.frac < b.frac

\* The four-digit token y occurs in the six fraction digits of the string
FracHasToken(s, y) ==
    /\ s.frac # 0
    /\ \/ s.frac \div 100 = y
       \/ (s.frac \div 10) % 10000 = y
       \/ s.frac % 10000 = y

\* old in s (Python's substring test), old a four-digit year token
HasToken(s, old) == s.yr = old \/ FracHasToken(s, old)

\* s.replace(old, new) for four-digit tokens: every occurrence is rewritten
ReplaceToken(s, old, new) ==
    LET f2 == IF ~FracHasToken(s, old) THEN s.frac
              ELSE IF s.frac \div 100 = old THEN (new * 100) + (s.frac % 100)
              ELSE IF (s.frac \div 10) % 10000 = old
                   THEN ((s.frac \div 100000) * 100000) + (new * 10) + (s.frac % 10)
              ELSE ((s.frac \div 10000) * 10000) + new
    IN  [s EXCEPT !.yr = IF @ = old THEN new ELSE @, !.frac = f2]

\* The strptime formats tried by parse_date, in order.  A raw date is a
\* record [fmt, yr, slot, off]: fmt names the one format its text matches
\* ("junk": none of them, "empty": the empty string).
FORMATS == <<"rfc822_offset",   \* %a, %d %b %Y %H:%M:%S %z
             "rfc822_name",     \* %a, %d %b %Y %H:%M:%S %Z
             "iso_z",           \* %Y-%m-%dT%H:%M:%SZ
             "sql",             \* %Y-%m-%d %H:%M:%S
             "dmy",             \* %d %b %Y %H:%M:%S
             "mdy">>            \* %b %d, %Y

RawDate(fmt, yr, slot, off) == [fmt |-> fmt, yr |-> yr, slot |-> slot, off |-> off]

EmptyDate == RawDate("empty", 0, 0, 0)

\* datetime.strptime(date_str, fmt): the datetime object (only %z gives an
\* aware one; %b %d, %Y gives midnight).  Called only when the text matches.
Strptime(raw, fmt) ==
    [yr    |-> raw.yr,
     slot  |-> IF fmt = "mdy" THEN raw.slot - (raw.slot % 24) ELSE raw.slot,
     us    |-> 0,
     aware |-> fmt = "rfc822_offset",
     off   |-> IF fmt = "rfc822_offset" THEN raw.off ELSE 0]

\* Utils.parse_date (both scripts): the first format that parses wins; the
\* year rewrite that follows the loop changes a local only, and the function
\* then returns the current time.
parse_date(date_str, clock) ==
    IF date_str.fmt = "empty" THEN IsoZ(clock)
    ELSE LET ok == {i \in 1..Len(FORMATS) : FORMATS[i] = date_str.fmt}
         IN  IF ok # {}
             THEN IsoZ(Strptime(date_str, FORMATS[CHOOSE i \in ok : \A j \in ok : i <= j]))
             ELSE IsoZ(clock)

----------------------------------------------------------------------------
(* The names of the scrape targets, as text *)

NameCbn ==
    <<"C","e","n","t","r","a","l"," ","B","a","n","k"," ","o","f"," ","N","i","g","e","r","i","a">>

NameNbs ==
    <<"N","a","t","i","o","n","a","l"," ","B","u","r","e","a","u"," ","o","f"," ","S","t","a","t","i","s","t","i","c","s">>

----------------------------------------------------------------------------
(* Configuration.  p is the pipeline: "free" or "live".                    *)

\* Config.SOURCES: the source names, all of type 'rss'
SOURCES(p) ==
    IF p = "free"
    THEN <<"BusinessDay Nigeria", "Nairametrics", "Premium Times", "The Cable",
           "Punch Nigeria", "Google News Nigeria", "Google News CBN",
           "Twitter Nigeria Economy", "BBC News Nigeria", "Reuters Africa Business">>
    ELSE <<"BusinessDay Nigeria", "Nairametrics", "Premium Times", "The Cable",
           "Punch Nigeria", "Google News Nigeria", "Google News CBN",
           "Twitter Nigeria Economy", "BBC News Nigeria">>

\* the feed urls of fetch_google_news_rss / fetch_google_news
GOOGLE_URLS(p) ==
    IF p = "free"
    THEN <<"https://rss.app/feeds/v6hV9JCnF3q3pWwR.xml",
           "https://rss.app/feeds/d8ZfvKj7JDMTC6zN.xml",
           "https://rss.app/feeds/P9G3Hc13f7g9gHWb.xml">>
    ELSE <<"https://rss.app/feeds/v6hV9JCnF3q3pWwR.xml",
           "https://rss.app/feeds/d8ZfvKj7JDMTC6zN.xml">>

\* the topics of fetch_nitter_tweets / fetch_twitter_feeds
TOPICS(p) ==
    IF p = "free"
    THEN <<"Twitter - nigeria economy", "Twitter - CBN Nigeria", "Twitter - naira">>
    ELSE <<"Twitter - nigeria economy", "Twitter - CBN Nigeria">>

\* the targets of fetch_web_scraping / fetch_web_content
SCRAPE_TARGETS(p) ==
    IF p = "free"
    THEN <<[name |-> "Central Bank of Nigeria", text |-> NameCbn,
            url |-> "https://www.cbn.gov.ng"],
           [name |-> "National Bureau of Statistics", text |-> NameNbs,
            url |-> "https://nigerianstat.gov.ng"]>>
    ELSE <<[name |-> "Central Bank of Nigeria", text |-> NameCbn,
            url |-> "https://www.cbn.gov.ng"]>>

\* all_articles[:50] / all_articles[:40]
MAX_ARTICLES(p) == IF p = "free" THEN 50 ELSE 40

\* if len(all_articles) < 5: the fallback threshold of both scripts
FALLBACK_THRESHOLD == 5

\* if len(all_articles) < 10 / < 8: scraping is tried as a backup
SCRAPE_THRESHOLD(p) == IF p = "free" THEN 10 ELSE 8

Ellipsis == <<".", ".", ".">>

\* f"Latest update from {target['name']}" / f"Update from {target['name']}"
scrape_summary(p, target) ==
    (IF p = "free"
     THEN <<"L","a","t","e","s","t"," ","u","p","d","a","t","e"," ","f","r","o","m"," ">>
     ELSE <<"U","p","d","a","t","e"," ","f","r","o","m"," ">>) \o target.text

----------------------------------------------------------------------------
(* Adapters.  A raw entry is a record holding the fields the feed gave;    *)
(* any field may be absent.  An Article is                                 *)
(*   [title, url, summary, source, published_at, type]                     *)
(* (id, category, timestamp and metrics are written once and never read by *)
(* the pipeline, and are left out).                                        *)

\* entry.get(key, default)
Get(entry, key, default) == IF key \in DOMAIN entry THEN entry[key] ELSE default

Article(title, url, summary, source, published_at, type) ==
    [title |-> title, url |-> url, summary |-> summary, source |-> source,
     published_at |-> published_at, type |-> type]

\* text[:n] + '...' if len(text) > n else text
Truncate(text, n) == IF Len(text) > n THEN Take(text, n) \o Ellipsis ELSE text

\* feedparser.parse(url) raised: the answer holds the exception, no entries
ParseRaises(feed) == feed # <<>> /\ "raises" \in DOMAIN feed[1]

\* The text the relevance filter of fetch_rss_feed reads
rss_filter_text(p, entry) ==
    LET title   == clean_text(Get(entry, "title", <<>>))
        summary == IF p = "free"
                   THEN clean_text(Get(entry, "summary", Get(entry, "description", <<>>)))
                   ELSE clean_text(Get(entry, "summary", <<>>))
    IN  title \o <<" ">> \o summary

\* free: "url = entry.links[0].href" is read when the entry passed the
\* filter, has no link and has links; it raises AttributeError when the
\* first of the links has no href
rss_entry_raises(p, entry) ==
    /\ p = "free"
    /\ is_relevant(rss_filter_text(p, entry), KEYWORDS)
    /\ Get(entry, "link", "") = ""
    /\ Get(entry, "links", <<>>) # <<>>
    /\ "href" \notin DOMAIN entry.links[1]

\* One iteration of the entry loop of fetch_rss_feed: the articles appended
rss_entry(p, source, entry, clock) ==
    LET title   == clean_text(Get(entry, "title", <<>>))
        summary == IF p = "free"
                   THEN clean_text(Get(entry, "summary", Get(entry, "description", <<>>)))
                   ELSE clean_text(Get(entry, "summary", <<>>))
        link    == Get(entry, "link", "")
        url     == IF p = "free" /\ link = "" /\ Get(entry, "links", <<>>) # <<>>
                   THEN entry.links[1].href
                   ELSE link
        pub     == IF p = "free"
                   THEN parse_date(Get(entry, "published", Get(entry, "updated", EmptyDate)), clock)
                   ELSE parse_date(Get(entry, "published", EmptyDate), clock)
    IN  IF ~is_relevant(title \o <<" ">> \o summary, KEYWORDS) THEN <<>>
        ELSE IF title # <<>> /\ url # ""
             THEN <<Article(title, url, Truncate(summary, 200), source, pub, "rss")>>
             ELSE <<>>

\* The entries of `latest` an adapter loop gets through: all of them, or
\* those before the first one that raises
Processed(latest, Raises(_)) ==
    LET bad == {i \in 1..Len(latest) : Raises(latest[i])}
    IN  IF bad = {} THEN latest
        ELSE Take(latest, (CHOOSE i \in bad : \A j \in bad : i <= j) - 1)

\* The try block of fetch_rss_feed: what each entry it got through
\* appended, and whether the block was left by an exception
rss_feed_run(p, source, feed, clock) ==
    IF ParseRaises(feed) THEN [made |-> <<>>, raised |-> TRUE]
    ELSE LET latest == Take(feed, IF p = "free" THEN 15 ELSE 10)
             done   == Processed(latest, LAMBDA entry : rss_entry_raises(p, entry))
         IN  [made   |-> [i \in 1..Len(done) |-> rss_entry(p, source, done[i], clock)],
              raised |-> Len(done) < Len(latest)]

\* NewsFetcher.fetch_rss_feed on the answer of the feed of `source`: the
\* articles appended before an exception are returned
fetch_rss_feed(p, source, entries, clock) ==
    Concat(rss_feed_run(p, source, entries, clock).made)

\* One iteration of the entry loop of fetch_google_news_rss / fetch_google_news
google_entry(entry, clock) ==
    LET title == clean_text(Get(entry, "title", <<>>))
        url   == Get(entry, "link", "")
    IN  IF ~is_relevant(title, KEYWORDS) THEN <<>>
        ELSE IF title # <<>> /\ url # ""
             THEN <<Article(title, url, Take(clean_text(Get(entry, "summary", <<>>)), 150),
                            "Google News",
                            parse_date(Get(entry, "published", EmptyDate), clock),
                            "google_news")>>
             ELSE <<>>

\* One pass of the url loop of fetch_google_news_rss / fetch_google_news
google_feed_run(p, feed, clock) ==
    IF ParseRaises(feed) THEN [made |-> <<>>, raised |-> TRUE]
    ELSE LET latest == Take(feed, IF p = "free" THEN 10 ELSE 5)
         IN  [made   |-> [i \in 1..Len(latest) |-> google_entry(latest[i], clock)],
              raised |-> FALSE]

\* The body of the url loop of fetch_google_news_rss / fetch_google_news
fetch_google_news(p, entries, clock) ==
    Concat(google_feed_run(p, entries, clock).made)

\* One iteration of the entry loop of fetch_nitter_tweets / fetch_twitter_feeds:
\* the article is appended without any check of its title or url
twitter_entry(p, topic, entry, clock) ==
    LET content == clean_text(Get(entry, "title", <<>>))
    IN  <<Article(Truncate(content, IF p = "free" THEN 100 ELSE 80),
                  Get(entry, "link",
                      IF p = "free" THEN "https://twitter.com/i/web/status/hash" ELSE "#"),
                  <<>>, topic,
                  parse_date(Get(entry, "published", EmptyDate), clock),
                  "twitter")>>

\* One pass of the topic loop of fetch_nitter_tweets / fetch_twitter_feeds
twitter_feed_run(p, topic, feed, clock) ==
    IF ParseRaises(feed) THEN [made |-> <<>>, raised |-> TRUE]
    ELSE LET latest == Take(feed, IF p = "free" THEN 5 ELSE 3)
         IN  [made   |-> [i \in 1..Len(latest) |->
                              twitter_entry(p, topic, latest[i], clock)],
              raised |-> FALSE]

\* The body of the topic loop of fetch_nitter_tweets / fetch_twitter_feeds
fetch_twitter(p, topic, entries, clock) ==
    Concat(twitter_feed_run(p, topic, entries, clock).made)

\* href.startswith('http'): hrefs are atomic strings, the absolute ones listed
AbsoluteHrefs == {"https://www.cbn.gov.ng/news/1", "http://example.org/a"}

\* The body of the target loop of fetch_web_scraping / fetch_web_content on
\* the anchors [text, href] of the page (anchors without href are not found)
fetch_web(p, target, anchors, clock) ==
    IF ParseRaises(anchors) THEN <<>> ELSE
    LET found  == Take(anchors, IF p = "free" THEN 10 ELSE 15)
        minlen == IF p = "free" THEN 20 ELSE 15
        links  == SelectSeq(found, LAMBDA a :
                      Len(a.text) > minlen /\ is_relevant(a.text, KEYWORDS))
        picked == Take(links, IF p = "free" THEN 5 ELSE 3)
        url(a) == IF a.href \in AbsoluteHrefs THEN a.href ELSE target.url \o a.href
    IN  [i \in 1..Len(picked) |->
            Article(IF p = "free" THEN picked[i].text ELSE Take(picked[i].text, 100),
                    url(picked[i]),
                    scrape_summary(p, target),
                    target.name, IsoZ(clock),
                    IF p = "free" THEN "web_scrape" ELSE "web")]

----------------------------------------------------------------------------
(* Fallback articles *)

\* NewsFetcher.generate_sample_fallback (fetch-news-free.py)
generate_sample_fallback(today) ==
    <<Article(<<"N","i","g","e","r","i","a","n"," ","E","c","o","n","o","m","y"," ","S","h","o","w","s"," ","S","t","r","o","n","g"," ","G","r","o","w","t","h"," ","i","n"," ","Q","1"," ","2","0","2","5">>,
              "https://businessday.ng/nigeria-economy-growth-2025/",
              <<"L","a","t","e","s","t"," ","e","c","o","n","o","m","i","c"," ","i","n","d","i","c","a","t","o","r","s"," ","s","h","o","w"," ","N","i","g","e","r","i","a","'","s"," ","e","c","o","n","o","m","y"," ","g","r","o","w","i","n","g"," ","a","t"," ","3",".","2","%"," ","i","n"," ","t","h","e"," ","f","i","r","s","t"," ","q","u","a","r","t","e","r"," ","o","f"," ","2","0","2","5",","," ","e","x","c","e","e","d","i","n","g"," ","e","x","p","e","c","t","a","t","i","o","n","s",".">>,
              "BusinessDay Nigeria",
              IsoZ(MinusHours(today, 0)), "sample"),
      Article(<<"C","B","N"," ","M","a","i","n","t","a","i","n","s"," ","I","n","t","e","r","e","s","t"," ","R","a","t","e"," ","a","t"," ","1","8",".","7","5","%"," ","t","o"," ","F","i","g","h","t"," ","I","n","f","l","a","t","i","o","n">>,
              "https://www.cbn.gov.ng/monetary-policy/2025/",
              <<"T","h","e"," ","C","e","n","t","r","a","l"," ","B","a","n","k"," ","o","f"," ","N","i","g","e","r","i","a"," ","h","a","s"," ","d","e","c","i","d","e","d"," ","t","o"," ","m","a","i","n","t","a","i","n"," ","t","h","e"," ","M","o","n","e","t","a","r","y"," ","P","o","l","i","c","y"," ","R","a","t","e"," ","a","t"," ","1","8",".","7","5","%"," ","i","n"," ","i","t","s"," ","l","a","t","e","s","t"," ","M","P","C"," ","m","e","e","t","i","n","g",".">>,
              "Central Bank of Nigeria",
              IsoZ(MinusHours(today, 2)), "sample"),
      Article(<<"N","a","i","r","a"," ","S","t","a","b","i","l","i","z","e","s"," ","a","t"," ","U+20A6","8","9","0","/","$"," ","i","n"," ","P","a","r","a","l","l","e","l"," ","M","a","r","k","e","t">>,
              "https://nairametrics.com/naira-exchange-rate-2025/",
              <<"T","h","e"," ","N","i","g","e","r","i","a","n"," ","n","a","i","r","a"," ","h","a","s"," ","s","t","a","b","i","l","i","z","e","d"," ","a","r","o","u","n","d"," ","U+20A6","8","9","0"," ","t","o"," ","t","h","e"," ","U","S"," ","d","o","l","l","a","r"," ","f","o","l","l","o","w","i","n","g"," ","r","e","c","e","n","t"," ","C","B","N"," ","i","n","t","e","r","v","e","n","t","i","o","n","s"," ","i","n"," ","t","h","e"," ","f","o","r","e","x"," ","m","a","r","k","e","t",".">>,
              "Nairametrics",
              IsoZ(MinusHours(today, 4)), "sample"),
      Article(<<"N","N","P","C"," ","R","e","p","o","r","t","s"," ","$","2",".","8"," ","B","i","l","l","i","o","n"," ","O","i","l"," ","R","e","v","e","n","u","e"," ","f","o","r"," ","J","a","n","u","a","r","y"," ","2","0","2","5">>,
              "https://www.thecable.ng/nnpc-oil-revenue-jan-2025/",
              <<"T","h","e"," ","N","i","g","e","r","i","a","n"," ","N","a","t","i","o","n","a","l"," ","P","e","t","r","o","l","e","u","m"," ","C","o","r","p","o","r","a","t","i","o","n"," ","h","a","s"," ","a","n","n","o","u","n","c","e","d"," ","$","2",".","8"," ","b","i","l","l","i","o","n"," ","i","n"," ","o","i","l"," ","r","e","v","e","n","u","e"," ","f","o","r"," ","J","a","n","u","a","r","y"," ","2","0","2","5",","," ","a"," ","1","2","%"," ","i","n","c","r","e","a","s","e"," ","f","r","o","m"," ","D","e","c","e","m","b","e","r",".">>,
              "The Cable",
              IsoZ(MinusHours(today, 6)), "sample"),
      Article(<<"I","n","f","l","a","t","i","o","n"," ","D","r","o","p","s"," ","t","o"," ","2","0",".","5","%"," ","i","n"," ","J","a","n","u","a","r","y"," ","2","0","2","5"," ","-"," ","N","B","S">>,
              "https://www.premiumtimesng.com/inflation-january-2025/",
              <<"T","h","e"," ","N","a","t","i","o","n","a","l"," ","B","u","r","e","a","u"," ","o","f"," ","S","t","a","t","i","s","t","i","c","s"," ","r","e","p","o","r","t","s"," ","t","h","a","t"," ","i","n","f","l","a","t","i","o","n"," ","f","e","l","l"," ","t","o"," ","2","0",".","5","%"," ","i","n"," ","J","a","n","u","a","r","y"," ","2","0","2","5",","," ","d","o","w","n"," ","f","r","o","m"," ","2","1",".","3","%"," ","i","n"," ","D","e","c","e","m","b","e","r",".">>,
              "Premium Times",
              IsoZ(MinusHours(today, 8)), "sample")>>

\* NewsFetcher.generate_current_articles (fetch-news.py)
generate_current_articles(today) ==
    <<Article(<<"N","i","g","e","r","i","a","n"," ","E","c","o","n","o","m","y"," ","S","h","o","w","s"," ","G","r","o","w","t","h"," ","i","n"," ","2","0","2","5">>,
              "https://businessday.ng/economy-growth-2025/",
              <<"E","c","o","n","o","m","i","c"," ","i","n","d","i","c","a","t","o","r","s"," ","s","h","o","w"," ","p","o","s","i","t","i","v","e"," ","g","r","o","w","t","h"," ","t","r","e","n","d","s"," ","i","n"," ","N","i","g","e","r","i","a"," ","f","o","r"," ","2","0","2","5",".">>,
              "BusinessDay Nigeria",
              IsoZ(MinusHours(today, 0)), "current"),
      Article(<<"C","B","N"," ","M","a","i","n","t","a","i","n","s"," ","M","o","n","e","t","a","r","y"," ","P","o","l","i","c","y"," ","S","t","a","n","c","e">>,
              "https://www.cbn.gov.ng/policy-2025/",
              <<"C","e","n","t","r","a","l"," ","B","a","n","k"," ","k","e","e","p","s"," ","i","n","t","e","r","e","s","t"," ","r","a","t","e","s"," ","s","t","e","a","d","y"," ","t","o"," ","m","a","n","a","g","e"," ","i","n","f","l","a","t","i","o","n",".">>,
              "Central Bank of Nigeria",
              IsoZ(MinusHours(today, 1)), "current"),
      Article(<<"N","a","i","r","a"," ","E","x","c","h","a","n","g","e"," ","R","a","t","e"," ","U","p","d","a","t","e">>,
              "https://nairametrics.com/forex-2025/",
              <<"L","a","t","e","s","t"," ","u","p","d","a","t","e","s"," ","o","n"," ","n","a","i","r","a"," ","t","o"," ","d","o","l","l","a","r"," ","e","x","c","h","a","n","g","e"," ","r","a","t","e","s"," ","i","n"," ","N","i","g","e","r","i","a","n"," ","m","a","r","k","e","t","s",".">>,
              "Nairametrics",
              IsoZ(MinusHours(today, 2)), "current"),
      Article(<<"O","i","l"," ","R","e","v","e","n","u","e"," ","R","e","p","o","r","t","s"," ","f","o","r"," ","2","0","2","5">>,
              "https://www.thecable.ng/oil-revenue-2025/",
              <<"N","N","P","C"," ","r","e","l","e","a","s","e","s"," ","l","a","t","e","s","t"," ","o","i","l"," ","r","e","v","e","n","u","e"," ","f","i","g","u","r","e","s"," ","f","o","r"," ","t","h","e"," ","c","u","r","r","e","n","t"," ","y","e","a","r",".">>,
              "The Cable",
              IsoZ(MinusHours(today, 3)), "current"),
      Article(<<"I","n","f","l","a","t","i","o","n"," ","T","r","e","n","d","s"," ","i","n"," ","N","i","g","e","r","i","a"," ","2","0","2","5">>,
              "https://www.premiumtimesng.com/inflation-2025/",
              <<"L","a","t","e","s","t"," ","i","n","f","l","a","t","i","o","n"," ","d","a","t","a"," ","a","n","d"," ","a","n","a","l","y","s","i","s"," ","f","r","o","m"," ","N","i","g","e","r","i","a","n"," ","s","t","a","t","i","s","t","i","c","a","l"," ","a","g","e","n","c","i","e","s",".">>,
              "Premium Times",
              IsoZ(MinusHours(today, 4)), "current")>>

----------------------------------------------------------------------------
(* NewsFetcher.remove_duplicates (fetch-news-free.py) *)

\* re.sub(r'[^\w\s]', '', title)
StripPunctuation(title) == SelectSeq(title, LAMBDA c : IsWordChar(c) \/ IsSpace(c))

\* title = article['title'].lower(); title = re.sub(r'[^\w\s]', '', title)
NormalizedTitle(title) == StripPunctuation(Lower(title))

\* set(title.split()[:5])
FirstWords(title) == Range(Take(Split(title), 5))

\* Variant: the threshold is 0.8
IsSimilar_above_four_fifths(title_words, seen_words) ==
    10 * Cardinality(title_words \cap seen_words) > 8 * Max(Cardinality(title_words), 1)

\* Variant: the threshold is reached, not exceeded
IsSimilar_at_least(title_words, seen_words) ==
    10 * Cardinality(title_words \cap seen_words) >= 6 * Max(Cardinality(title_words), 1)

\* Variant: the share is taken of the words of the title seen before
IsSimilar_of_seen(title_words, seen_words) ==
    10 * Cardinality(title_words \cap seen_words) > 6 * Max(Cardinality(seen_words), 1)

\* similarity = len(title_words & seen_words) / max(len(title_words), 1);
\* similarity > 0.6, compared exactly (k/n = 0.6 only for 3/5, and the float
\* quotient 3/5 is the literal 0.6)
IsSimilar(title_words, seen_words) ==
    10 * Cardinality(title_words \cap seen_words) > 6 * Max(Cardinality(title_words), 1)

\* Variant: only the title of the article before this one is remembered
dedup_free_step_last_only(st, article) ==
    LET title        == NormalizedTitle(article.title)
        title_words  == FirstWords(title)
        is_duplicate == \E seen_title \in st.seen_titles :
                            IsSimilar(title_words, FirstWords(seen_title))
    IN  IF is_duplicate THEN [st EXCEPT !.seen_titles = {title}]
        ELSE [unique_articles |-> Append(st.unique_articles, article),
              seen_titles     |-> {title}]

\* Variant: a new article is put before the ones kept so far
dedup_free_step_newest_first(st, article) ==
    LET title        == NormalizedTitle(article.title)
        title_words  == FirstWords(title)
        is_duplicate == \E seen_title \in st.seen_titles :
                            IsSimilar(title_words, FirstWords(seen_title))
    IN  IF is_duplicate THEN st
        ELSE [unique_articles |-> <<article>> \o st.unique_articles,
              seen_titles     |-> st.seen_titles \cup {title}]

\* One iteration of the loop of remove_duplicates; st holds unique_articles
\* and seen_titles
dedup_free_step(st, article) ==
    LET title        == NormalizedTitle(article.title)
        title_words  == FirstWords(title)
        is_duplicate == \E seen_title \in st.seen_titles :
                            IsSimilar(title_words, FirstWords(seen_title))
    IN  IF is_duplicate THEN st
        ELSE [unique_articles |-> Append(st.unique_articles, article),
              seen_titles     |-> st.seen_titles \cup {title}]

\* for article in articles: the iterations in list order.  The list is
\* halved, and the state after the first half computed before the second
\* half is entered, only to keep the evaluation shallow.
RECURSIVE dedup_free_loop(_, _)
dedup_free_loop(articles, st) ==
    IF articles = <<>> THEN st
    ELSE IF Len(articles) = 1 THEN dedup_free_step(st, articles[1])
    ELSE LET h   == Len(articles) \div 2
             mid == dedup_free_loop(Take(articles, h), st)
         IN  IF Evaluated(mid) THEN dedup_free_loop(Drop(articles, h), mid) ELSE mid

remove_duplicates_free(articles) ==
    dedup_free_loop(articles, [unique_articles |-> <<>>, seen_titles |-> {}]).unique_articles

(* NewsFetcher.remove_duplicates (fetch-news.py) *)

\* title_key = article['title'].lower()[:50]
TitleKey(title) == Take(Lower(title), 50)

\* One iteration of the loop of remove_duplicates; st holds unique and seen
dedup_live_step(st, article) ==
    LET title_key == TitleKey(article.title)
    IN  IF title_key \notin st.seen
        THEN [unique |-> Append(st.unique, article), seen |-> st.seen \cup {title_key}]
        ELSE st

RECURSIVE dedup_live_loop(_, _)
dedup_live_loop(articles, st) ==
    IF articles = <<>> THEN st
    ELSE IF Len(articles) = 1 THEN dedup_live_step(st, articles[1])
    ELSE LET h   == Len(articles) \div 2
             mid == dedup_live_loop(Take(articles, h), st)
         IN  IF Evaluated(mid) THEN dedup_live_loop(Drop(articles, h), mid) ELSE mid

remove_duplicates_live(articles) ==
    dedup_live_loop(articles, [unique |-> <<>>, seen |-> {}]).unique

remove_duplicates(p, articles) ==
    IF p = "free" THEN remove_duplicates_free(articles)
    ELSE remove_duplicates_live(articles)

----------------------------------------------------------------------------
(* Step 6 of fetch_all_news (fetch-news-free.py): recent dates, no future *)

\* datetime.fromisoformat(s.replace('Z', '+00:00')): the only 'Z' of the
\* string is its last character, so the text parsed is the string with
\* +00:00 in its place.  A string that already prints an offset then holds
\* two and is rejected (ValueError); otherwise the object is aware, UTC.
fromisoformat_utc(s) ==
    IF s.sign # "" THEN [ok |-> FALSE, dt |-> DT(0, 0, 0)]
    ELSE [ok |-> TRUE,
          dt |-> [yr |-> s.yr, slot |-> s.slot, us |-> s.frac,
                  aware |-> TRUE, off |-> 0]]

\* a > b on datetime objects: TypeError when exactly one of them is aware
CompareRaises(a, b) == a.aware # b.aware

DtGreater(a, b) ==
    LET ha == a.yr * HoursPerYear + a.slot - a.off
        hb == b.yr * HoursPerYear + b.slot - b.off
    IN  ha > hb \/ (ha = hb /\ a.us > b.us)

\* The body of the loop of step 6 for one article; today is the naive
\* datetime.utcnow() taken before the loop
fix_date_free(published_at, today) ==
    LET s       == IF HasToken(published_at, 2024)
                   THEN ReplaceToken(published_at, 2024, 2025)
                   ELSE published_at
        parsed  == fromisoformat_utc(s)
        clamped == IsoZ(MinusHours(today, 1))
    IN  IF ~parsed.ok THEN clamped                         \* except: (ValueError)
        ELSE IF CompareRaises(parsed.dt, today) THEN clamped   \* except: (TypeError)
        ELSE IF DtGreater(parsed.dt, today) THEN clamped
        ELSE s

fix_dates_free(articles, today) ==
    [i \in 1..Len(articles) |->
        [articles[i] EXCEPT !.published_at = fix_date_free(@, today)]]

(* NewsFetcher.ensure_current_dates (fetch-news.py) *)

ensure_current_date(pub_date, current_year) ==
    IF HasToken(pub_date, current_year - 1)
    THEN ReplaceToken(pub_date, current_year - 1, current_year)
    ELSE IF HasToken(pub_date, current_year - 2)
         THEN ReplaceToken(pub_date, current_year - 2, current_year)
         ELSE pub_date

ensure_current_dates(articles, clock) ==
    [i \in 1..Len(articles) |->
        [articles[i] EXCEPT !.published_at = ensure_current_date(@, clock.yr)]]

----------------------------------------------------------------------------
(* all_articles.sort(key=lambda x: x.get('published_at', ''), reverse=True) *)

\* list.sort is stable, also with reverse=True: x goes after every element
\* whose key is not smaller than its own
InsertDesc(sorted, x) ==
    LET smaller == {i \in 1..Len(sorted) :
                        StrLess(sorted[i].published_at, x.published_at)}
        k == IF smaller = {} THEN Len(sorted) + 1
             ELSE CHOOSE i \in smaller : \A j \in smaller : i <= j
    IN  SubSeq(sorted, 1, k - 1) \o <<x>> \o SubSeq(sorted, k, Len(sorted))

\* The elements are inserted in list order.  The list is halved, and the
\* first half inserted before the second half is entered, only to keep the
\* evaluation shallow.
RECURSIVE SortLoop(_, _)
SortLoop(rest, sorted) ==
    IF rest = <<>> THEN sorted
    ELSE IF Len(rest) = 1 THEN InsertDesc(sorted, rest[1])
    ELSE LET h   == Len(rest) \div 2
             mid == SortLoop(Take(rest, h), sorted)
         IN  IF Evaluated(mid) THEN SortLoop(Drop(rest, h), mid) ELSE mid

sort_newest_first(articles) == SortLoop(articles, <<>>)

\* Variant: the slice keeps one article more than the cap
limit_articles_one_more(p, articles) == Take(articles, MAX_ARTICLES(p) + 1)

\* all_articles[:50] / all_articles[:40]
limit_articles(p, articles) == Take(articles, MAX_ARTICLES(p))

\* Variant: the fallback is added below four articles only
add_fallback_below_four(p, articles, today) ==
    IF Len(articles) < FALLBACK_THRESHOLD - 1
    THEN (IF p = "free" THEN generate_sample_fallback(today)
                        ELSE generate_current_articles(today)) \o articles
    ELSE articles

\* Variant: the fallback is added up to and including five articles
add_fallback_up_to_five(p, articles, today) ==
    IF Len(articles) <= FALLBACK_THRESHOLD
    THEN (IF p = "free" THEN generate_sample_fallback(today)
                        ELSE generate_current_articles(today)) \o articles
    ELSE articles

\* if len(all_articles) < 5: sample_articles + all_articles
add_fallback(p, articles, today) ==
    IF Len(articles) < FALLBACK_THRESHOLD
    THEN (IF p = "free" THEN generate_sample_fallback(today)
                        ELSE generate_current_articles(today)) \o articles
    ELSE articles

----------------------------------------------------------------------------
(* The environment: what the feeds return in the runs explored.            *)

\* Bounds of the explored runs
MaxFeeds == 2

MaxTitles == 3

MaxBulkFeeds == 7

MaxTicks == 1

\* The clock at the start of a run: hour StartSlot of the year
StartSlot == 4 * 24 + 4

\* The clocks a run may start at (microsecond 0 prints no fraction)
StartClocks == {DT(2025, StartSlot, 500000), DT(2026, StartSlot, 0)}

TitleCbn ==
    <<"C","B","N"," ","h","o","l","d","s"," ","r","a","t","e">>

TitleNaira ==
    <<"N","a","i","r","a"," ","g","a","i","n","s">>

TitleBudget ==
    <<"F","G"," ","b","u","d","g","e","t"," ","s","i","g","n","e","d">>

TitleLagos ==
    <<"L","a","g","o","s"," ","t","r","a","d","e"," ","f","a","i","r">>

TitleGdp ==
    <<"G","D","P"," ","g","r","o","w","s">>

TitleAbuja ==
    <<"A","b","u","j","a"," ","r","e","v","e","n","u","e"," ","u","p">>

TitleWeather ==
    <<"W","e","a","t","h","e","r"," ","t","o","d","a","y">>

TitleTagsOnly ==
    <<"<","b",">","<","/","b",">">>

TitleMarkup ==
    <<"<","b",">","N","a","i","r","a","<","/","b",">"," ","&","a","m","p",";"," ","d","e","b","t"," "," ","r","i","s","e">>

SummaryEconomy ==
    <<"N","i","g","e","r","i","a"," ","e","c","o","n","o","m","y">>

AnchorPolicy ==
    <<"C","e","n","t","r","a","l"," ","B","a","n","k"," ","o","f"," ","N","i","g","e","r","i","a"," ","p","o","l","i","c","y"," ","u","p","d","a","t","e">>

AnchorShort ==
    <<"C","B","N"," ","n","e","w","s">>

\* Raw entries of the world "small"; cy is the year the run starts in
EntryGood(cy) ==
    [title |-> TitleCbn, summary |-> SummaryEconomy, link |-> "https://example.ng/cbn",
     published |-> RawDate("iso_z", cy, StartSlot - 5, 0)]

\* the title is markup only: it cleans to the empty string
EntryNoTitle(cy) ==
    [title |-> TitleTagsOnly, summary |-> SummaryEconomy, link |-> "https://example.ng/t",
     published |-> RawDate("rfc822_name", cy, StartSlot - 4, 0)]

\* the link is present and empty
EntryEmptyLink(cy) ==
    [title |-> TitleNaira, link |-> "",
     published |-> RawDate("sql", cy, StartSlot - 6, 0)]

\* no link, no summary, no published: description and updated instead
EntryBare(cy) ==
    [title |-> TitleMarkup, description |-> SummaryEconomy,
     updated |-> RawDate("dmy", cy, StartSlot - 7, 0)]

\* dated after the run
EntryFuture(cy) ==
    [title |-> TitleBudget, link |-> "https://example.ng/budget",
     published |-> RawDate("iso_z", cy, StartSlot + 50, 0)]

\* dated with a zone offset of +01:00
EntryOffset(cy) ==
    [title |-> TitleLagos, link |-> "https://example.ng/lagos",
     published |-> RawDate("rfc822_offset", cy, StartSlot - 3, 1)]

\* dated last year, later in the year than the run
EntryLastYear(cy) ==
    [title |-> TitleGdp, link |-> "https://example.ng/gdp",
     published |-> RawDate("mdy", cy - 1, StartSlot + 100, 0)]

\* a date no format parses
EntryJunkDate(cy) ==
    [title |-> TitleAbuja, link |-> "https://example.ng/abuja",
     published |-> RawDate("junk", cy - 1, StartSlot, 0)]

\* no keyword in it
EntryIrrelevant(cy) ==
    [title |-> TitleWeather, link |-> "https://example.ng/weather",
     published |-> RawDate("iso_z", cy, StartSlot - 2, 0)]

SmallEntries(cy) ==
    {EntryGood(cy), EntryNoTitle(cy), EntryEmptyLink(cy), EntryBare(cy), EntryFuture(cy),
     EntryOffset(cy), EntryLastYear(cy), EntryJunkDate(cy), EntryIrrelevant(cy)}

\* The text of the number n, three digits
NumberText(n) ==
    <<DigitChars[((n \div 100) % 10) + 1], DigitChars[((n \div 10) % 10) + 1],
      DigitChars[(n % 10) + 1]>>

\* A well-formed entry generated from the number n: the title "FG nnn",
\* dated before the run, not in date order
NumberedEntry(n, cy) ==
    [title |-> <<"F", "G", " ">> \o NumberText(n),
     link |-> "https://example.ng/item",
     published |-> RawDate("iso_z", cy, StartSlot - 1 - ((n * 7) % 40), 0)]

\* A feed of len well-formed entries numbered from base + 1
NumberedFeed(len, base, cy) == [i \in 1..len |-> NumberedEntry(base + i, cy)]

\* The anchors a scraped page may hold
SmallPages ==
    {<<[text |-> AnchorPolicy, href |-> "/news/policy"]>>,
     <<[text |-> AnchorShort, href |-> "/news/short"],
       [text |-> AnchorPolicy, href |-> "https://www.cbn.gov.ng/news/1"]>>}

\* The fetches that may answer in the world "small"; every other source
\* returns no entries
Answering == {<<"rss", 1>>, <<"google", 1>>, <<"twitter", 1>>, <<"web", 1>>}

\* Titles of the world "titles": near-duplicates of several shapes
TitleNairaA ==
    <<"N","a","i","r","a"," ","F","a","l","l","s"," ","S","h","a","r","p","l","y"," ","A","g","a","i","n","s","t"," ","D","o","l","l","a","r">>

TitleNairaB ==
    <<"N","a","i","r","a"," ","f","a","l","l","s"," ","s","h","a","r","p","l","y"," ","a","g","a","i","n","s","t"," ","t","h","e"," ","d","o","l","l","a","r","!">>

TitleNairaC ==
    <<"N","a","i","r","a"," ","f","a","l","l","s"," ","s","h","a","r","p","l","y"," ","i","n"," ","L","a","g","o","s">>

TitleOne ==
    <<"I","n","f","l","a","t","i","o","n">>

TitleTwo ==
    <<"I","n","f","l","a","t","i","o","n"," ","r","i","s","e","s">>

TitleThree ==
    <<"I","n","f","l","a","t","i","o","n"," ","r","i","s","e","s"," ","a","g","a","i","n">>

TitleAgain ==
    <<"I","n","f","l","a","t","i","o","n"," ","a","g","a","i","n">>

TitleRepeat ==
    <<"C","B","N"," ","C","B","N"," ","C","B","N"," ","C","B","N"," ","r","a","t","e">>

TitleRepeatX ==
    <<"F","G"," ","C","B","N"," ","C","B","N"," ","C","B","N"," ","C","B","N"," ","r","a","t","e">>

TitleBang ==
    <<"!","!","!">>

TitleLongA ==
    <<"N","i","g","e","r","i","a"," ","c","e","n","t","r","a","l"," ","b","a","n","k"," ","m","o","n","e","t","a","r","y"," ","p","o","l","i","c","y"," ","c","o","m","m","i","t","t","e","e"," ","h","o","l","d","s"," ","r","a","t","e">>

TitleLongB ==
    <<"N","i","g","e","r","i","a"," ","c","e","n","t","r","a","l"," ","b","a","n","k"," ","m","o","n","e","t","a","r","y"," ","p","o","l","i","c","y"," ","c","o","m","m","i","t","t","e","e"," ","h","o","l","i","d","a","y">>

DedupTitles ==
    {TitleNairaA, TitleNairaB, TitleNairaC, TitleOne, TitleTwo, TitleThree,
     TitleRepeat, TitleRepeatX, TitleBang, TitleLongA, TitleLongB}

\* The titles of the longer feeds
CoreTitles == {TitleOne, TitleTwo, TitleThree, TitleAgain, TitleNairaA, TitleNairaC}

\* The feeds of n tweets with the given titles
Tweets(titles, n) == [1..n -> {[title |-> t] : t \in titles}]

\* The feeds of the world "titles": up to two tweets with any of the titles,
\* or up to MaxTitles tweets with the core titles
TitleFeeds ==
    UNION {Tweets(DedupTitles, n) : n \in 0..2}
        \cup UNION {Tweets(CoreTitles, n) : n \in 3..MaxTitles}

\* Entries per feed in the world "bulk": more than any adapter takes
BulkFeedLen == 20

\* A text of n characters, words of five letters, that holds no keyword
Filler(n) == [i \in 1..n |-> IF i % 6 = 0 THEN " " ELSE "x"]

\* Raw entries of the world "edge".  An Atom link element without href:
\* feedparser gives the entry links and no link
EntryNoHref(cy) ==
    [title |-> TitleNaira, links |-> <<[rel |-> "alternate"]>>,
     published |-> RawDate("iso_z", cy, StartSlot - 6, 0)]

\* no link; the first of the links has a href
EntryHrefOnly(cy) ==
    [title |-> TitleAbuja, link |-> "",
     links |-> <<[rel |-> "alternate", href |-> "https://example.ng/alt"]>>,
     published |-> RawDate("iso_z", cy, StartSlot - 8, 0)]

\* the only keyword is behind the first 200 characters of the summary
EntryLateKeyword(cy) ==
    [title |-> TitleWeather, summary |-> Filler(200) \o <<" ">> \o TitleNaira,
     link |-> "https://example.ng/late",
     published |-> RawDate("iso_z", cy, StartSlot - 9, 0)]

\* a summary of 160 characters
EntryLongSummary(cy) ==
    [title |-> TitleLagos, summary |-> Filler(160),
     link |-> "https://example.ng/long",
     published |-> RawDate("iso_z", cy, StartSlot - 10, 0)]

\* feedparser.parse / requests.get raised
Unreachable == <<[raises |-> "URLError"]>>

\* The feeds of the world "edge"
EdgeFeeds(cy) ==
    {Unreachable,
     <<EntryGood(cy)>>,
     <<EntryGood(cy), EntryNoHref(cy), EntryBare(cy)>>,
     <<EntryHrefOnly(cy), EntryIrrelevant(cy)>>,
     <<EntryLateKeyword(cy), EntryLongSummary(cy)>>}

\* The fetches that may answer in the world "edge"
EdgeAnswering ==
    {<<"rss", 1>>, <<"google", 1>>, <<"google", 2>>, <<"twitter", 1>>, <<"web", 1>>}

\* The clocks a run of the world "edge" may start at: the second one is the
\* first hour of a year
EdgeClocks == {DT(2025, StartSlot, 500000), DT(2026, 0, 0)}

\* The feeds the fetch number idx of an adapter may return in this state
Feeds(adapter, idx) ==
    CASE world = "small" ->
            {<<>>} \cup
            (IF budget = 0 \/ <<adapter, idx>> \notin Answering THEN {}
             ELSE IF adapter = "web" THEN SmallPages
             ELSE {<<e>> : e \in SmallEntries(now.yr)}
                  \cup {NumberedFeed(4, Len(all_articles), now.yr)})
      [] world = "titles" ->
            IF adapter = "twitter" /\ idx = 1 /\ budget > 0 THEN TitleFeeds ELSE {<<>>}
      [] world = "bulk" ->
            IF adapter # "web" /\ budget > 0
            THEN {NumberedFeed(BulkFeedLen, Len(all_articles), now.yr)}
            ELSE {<<>>}
      [] world = "edge" ->
            {<<>>} \cup
            (IF budget = 0 \/ <<adapter, idx>> \notin EdgeAnswering THEN {}
             ELSE IF adapter = "web" THEN SmallPages \cup {Unreachable}
             ELSE EdgeFeeds(now.yr))

----------------------------------------------------------------------------
(* The output files.  What a reader finds in a file is "absent" (no such    *)
(* file), "old" (the whole text an earlier run wrote), "new" (the whole     *)
(* text this run wrote), "empty" (open(path, "w") cut the file to nothing   *)
(* and nothing was written yet) or "partial" (a beginning of the new text). *)

NewsFile == "api/news.json"

\* The files main() writes, in the order it writes them
MainOutputs(p) ==
    IF p = "free" THEN <<NewsFile, "api/update-summary.json">>
    ELSE <<NewsFile, "api/news-simple.json">>

\* The files save_processed_data writes, in the order it writes them
ProcessedOutputs ==
    <<"api/processed/articles-enhanced.json", "api/processed/analytics.json",
      "api/processed/trending.json", "api/processed/sources-stats.json",
      "api/processed/summary.json">>

\* The files generate_weekly_report reads
WeeklyInputs ==
    <<"api/processed/analytics.json", "api/processed/trending.json",
      "api/processed/sources-stats.json">>

\* The files generate_weekly_report writes (the first is named after the day)
WeeklyOutputs == <<"reports/weekly-report-DATE.md", "reports/weekly-report.json">>

\* The file generate_daily_digest writes (named after the day)
DigestFile == "reports/daily-digest-DATE.md"

FileNames ==
    Range(MainOutputs("free")) \cup Range(MainOutputs("live"))
    \cup Range(ProcessedOutputs) \cup Range(WeeklyOutputs) \cup {DigestFile}

\* No file was written yet
FreshDisk == [name \in FileNames |-> "absent"]

\* with open(name, "w") as f: json.dump(..., f), for each of outs in turn
Written(outs) == [name \in FileNames |-> IF name \in Range(outs) THEN "new" ELSE files[name]]

\* The process ends while outs[k] is open for writing: the files before it
\* are written, outs[k] is left as cut ("new": its text was complete), the
\* files after it are untouched
Interrupted(outs, k, cut) ==
    [name \in FileNames |->
        IF name \in Range(Take(outs, k - 1)) THEN "new"
        ELSE IF name = outs[k] THEN cut
        ELSE files[name]]

\* json.load(open(name)) returns: the file holds a whole text
Readable(name) == files[name] \in {"old", "new"}

----------------------------------------------------------------------------
(* The run of fetch_all_news / fetch_all, one action per step *)

\* The processor is not running: nothing was loaded or computed
ProcessorIdle ==
    /\ ppc = "idle"
    /\ py311 = FALSE
    /\ news = <<>>
    /\ processed_articles = <<>>
    /\ analytics = [raised |-> ""]
    /\ trends = [raised |-> ""]
    /\ sources_stats = [raised |-> ""]

InitCommon ==
    /\ ProcessorIdle
    /\ files = FreshDisk
    /\ rpc = "idle"
    /\ fetched = <<>>
    /\ pipeline \in {"free", "live"}
    /\ pc = "rss"
    /\ src = 1
    /\ all_articles = <<>>
    /\ ticks = 0
    /\ collected = <<>>
    /\ deduped = <<>>
    /\ uncapped = <<>>

Init ==
    /\ InitCommon
    /\ world = "small"
    /\ budget = MaxFeeds
    /\ now \in StartClocks

InitTitles ==
    /\ InitCommon
    /\ world = "titles"
    /\ budget = 1
    /\ now = DT(2025, StartSlot, 500000)

InitBulk ==
    /\ InitCommon
    /\ world = "bulk"
    /\ budget \in 0..MaxBulkFeeds
    /\ now = DT(2025, StartSlot, 500000)

InitEdge ==
    /\ InitCommon
    /\ world = "edge"
    /\ budget = MaxFeeds
    /\ now \in EdgeClocks

Spend(feed) == IF feed = <<>> THEN budget ELSE budget - 1

\* The record of one fetch: the adapter, the number of the source (url,
\* topic, target) in its list, the answer, what each entry the adapter got
\* through appended, and whether an exception ended the fetch
Fetch(adapter, index, feed, run) ==
    [adapter |-> adapter, index |-> index, feed |-> feed,
     made |-> run.made, raised |-> run.raised]

\* 1. for source in self.config.SOURCES: fetch_rss_feed(source)
FetchRss ==
    /\ pc = "rss"
    /\ \E feed \in Feeds("rss", src) :
        LET run == rss_feed_run(pipeline, SOURCES(pipeline)[src], feed, now)
        IN  /\ all_articles' = all_articles \o Concat(run.made)
            /\ fetched' = Append(fetched, Fetch("rss", src, feed, run))
            /\ budget' = Spend(feed)
    /\ IF src < Len(SOURCES(pipeline))
       THEN pc' = "rss" /\ src' = src + 1
       ELSE pc' = "google" /\ src' = 1
    /\ UNCHANGED <<procvars, diskvars>>
    /\ UNCHANGED <<pipeline, world, now, ticks, collected, deduped, uncapped>>

\* 2. fetch_google_news_rss() / fetch_google_news(): one url of its loop;
\* the try block is around the loop, so an exception ends the loop
FetchGoogle ==
    /\ pc = "google"
    /\ \E feed \in Feeds("google", src) :
        LET run == google_feed_run(pipeline, feed, now)
        IN  /\ all_articles' = all_articles \o Concat(run.made)
            /\ fetched' = Append(fetched, Fetch("google", src, feed, run))
            /\ budget' = Spend(feed)
            /\ IF src < Len(GOOGLE_URLS(pipeline)) /\ ~run.raised
               THEN pc' = "google" /\ src' = src + 1
               ELSE pc' = "twitter" /\ src' = 1
    /\ UNCHANGED <<procvars, diskvars>>
    /\ UNCHANGED <<pipeline, world, now, ticks, collected, deduped, uncapped>>

\* 3. fetch_nitter_tweets() / fetch_twitter_feeds(): one topic of its loop;
\* the try block is around the loop, so an exception ends the loop
FetchTwitter ==
    /\ pc = "twitter"
    /\ \E feed \in Feeds("twitter", src) :
        LET run == twitter_feed_run(pipeline, TOPICS(pipeline)[src], feed, now)
        IN  /\ all_articles' = all_articles \o Concat(run.made)
            /\ fetched' = Append(fetched, Fetch("twitter", src, feed, run))
            /\ budget' = Spend(feed)
            /\ IF src < Len(TOPICS(pipeline)) /\ ~run.raised
               THEN pc' = "twitter" /\ src' = src + 1
               ELSE pc' = "scrape_check" /\ src' = 1
    /\ UNCHANGED <<procvars, diskvars>>
    /\ UNCHANGED <<pipeline, world, now, ticks, collected, deduped, uncapped>>

\* 4. if len(all_articles) < 10 (free) / < 8 (live): scrape
CheckScrape ==
    /\ pc = "scrape_check"
    /\ pc' = IF Len(all_articles) < SCRAPE_THRESHOLD(pipeline) THEN "web" ELSE "dedup"
    /\ UNCHANGED <<procvars, diskvars, fetched>>
    /\ UNCHANGED <<pipeline, world, src, all_articles, now, budget, ticks,
                   collected, deduped, uncapped>>

\* fetch_web_scraping() / fetch_web_content(): one target of its loop; the
\* try block is inside the loop
FetchWeb ==
    /\ pc = "web"
    /\ \E page \in Feeds("web", src) :
        LET made == fetch_web(pipeline, SCRAPE_TARGETS(pipeline)[src], page, now)
        IN  /\ all_articles' = all_articles \o made
            /\ fetched' = Append(fetched,
                    Fetch("web", src, page,
                          [made |-> <<made>>, raised |-> ParseRaises(page)]))
            /\ budget' = Spend(page)
    /\ IF src < Len(SCRAPE_TARGETS(pipeline))
       THEN pc' = "web" /\ src' = src + 1
       ELSE pc' = "dedup" /\ src' = 1
    /\ UNCHANGED <<procvars, diskvars>>
    /\ UNCHANGED <<pipeline, world, now, ticks, collected, deduped, uncapped>>

\* 5. all_articles = self.remove_duplicates(all_articles)
RemoveDuplicates ==
    /\ pc = "dedup"
    /\ collected' = all_articles
    /\ all_articles' = remove_duplicates(pipeline, all_articles)
    /\ deduped' = all_articles'
    /\ pc' = "dates"
    /\ UNCHANGED <<procvars, diskvars, fetched>>
    /\ UNCHANGED <<pipeline, world, src, now, budget, ticks, uncapped>>

\* free: step 6, the loop over all_articles; live: ensure_current_dates
FixDates ==
    /\ pc = "dates"
    /\ all_articles' = IF pipeline = "free"
                       THEN fix_dates_free(all_articles, now)
                       ELSE ensure_current_dates(all_articles, now)
    /\ pc' = IF pipeline = "free" THEN "sort" ELSE "fallback"
    /\ UNCHANGED <<procvars, diskvars, fetched>>
    /\ UNCHANGED <<pipeline, world, src, now, budget, ticks, collected, deduped, uncapped>>

\* free: step 7, before the fallback; live: step 7, after the fallback
SortArticles ==
    /\ pc = "sort"
    /\ all_articles' = sort_newest_first(all_articles)
    /\ pc' = IF pipeline = "free" THEN "fallback" ELSE "limit"
    /\ UNCHANGED <<procvars, diskvars, fetched>>
    /\ UNCHANGED <<pipeline, world, src, now, budget, ticks, collected, deduped, uncapped>>

\* free: step 8; live: step 6
AddFallback ==
    /\ pc = "fallback"
    /\ all_articles' = add_fallback(pipeline, all_articles, now)
    /\ pc' = IF pipeline = "free" THEN "limit" ELSE "sort"
    /\ UNCHANGED <<procvars, diskvars, fetched>>
    /\ UNCHANGED <<pipeline, world, src, now, budget, ticks, collected, deduped, uncapped>>

\* all_articles = all_articles[:50] / [:40]; return all_articles
LimitArticles ==
    /\ pc = "limit"
    /\ uncapped' = all_articles
    /\ all_articles' = limit_articles(pipeline, all_articles)
    /\ pc' = "done"
    /\ UNCHANGED <<procvars, diskvars, fetched>>
    /\ UNCHANGED <<pipeline, world, src, now, budget, ticks, collected, deduped>>

\* Time passes before generate_sample_fallback / generate_current_articles
\* reads datetime.utcnow() again
Tick ==
    /\ pc = "fallback"
    /\ ticks < MaxTicks
    /\ ticks' = ticks + 1
    /\ now' = [now EXCEPT !.us = @ + 1]
    /\ UNCHANGED <<procvars, diskvars, fetched>>
    /\ UNCHANGED <<pipeline, world, pc, src, all_articles, budget,
                   collected, deduped, uncapped>>

\* main(), after the fetch returned: api/news.json and the second file are
\* written
SaveNews ==
    /\ pc = "done"
    /\ files' = Written(MainOutputs(pipeline))
    /\ pc' = "saved"
    /\ UNCHANGED <<pipeline, world, src, all_articles, now, budget, ticks,
                   collected, deduped, uncapped, fetched>>
    /\ UNCHANGED <<procvars, rpc>>

Next ==
    \/ FetchRss
    \/ FetchGoogle
    \/ FetchTwitter
    \/ CheckScrape
    \/ FetchWeb
    \/ RemoveDuplicates
    \/ FixDates
    \/ SortArticles
    \/ AddFallback
    \/ LimitArticles
    \/ Tick
    \/ SaveNews

\* Runs in which a few sources answer with one entry (or a short feed) each
Spec == Init /\ [][Next]_vars

\* Runs in which one Twitter topic returns tweets with near-duplicate titles
SpecTitles == InitTitles /\ [][Next]_vars

\* Runs in which the first sources each return a full feed
SpecBulk == InitBulk /\ [][Next]_vars

\* Runs in which feeds fail, entries lack fields or carry long summaries,
\* or the year has just begun
SpecEdge == InitEdge /\ [][Next]_vars

Done == pc = "done"

----------------------------------------------------------------------------
(* NigeriaNewsProcessor (process-data.py)                                  *)
(*                                                                         *)
(* A float that the code computes as a quotient of two small integers is   *)
(* the record [num, den] of that quotient, den > 0; the literals 0.2, 0.5  *)
(* and 0.8 are 1/5, 1/2 and 4/5 (the float quotient k/n equals the literal *)
(* exactly when the fractions are equal).                                  *)

Frac(num, den) == [num |-> num, den |-> den]

FracLess(a, b) == a.num * b.den < b.num * a.den

FracEq(a, b) == a.num * b.den = b.num * a.den

\* -a
FracNeg(a) == Frac(0 - a.num, a.den)

\* abs(a)
FracAbs(a) == IF a.num < 0 THEN FracNeg(a) ELSE a

\* min(a, b): the first of the two when they are equal
FracMin(a, b) == IF FracLess(b, a) THEN b ELSE a

\* a + b
FracAdd(a, b) == Frac((a.num * b.den) + (b.num * a.den), a.den * b.den)

\* positive_words of analyze_sentiment
POSITIVE_WORDS ==
    <<<<"g","r","o","w","t","h">>,
      <<"i","n","c","r","e","a","s","e">>,
      <<"r","i","s","e">>,
      <<"g","a","i","n">>,
      <<"p","r","o","f","i","t">>,
      <<"s","u","r","p","l","u","s">>,
      <<"r","e","c","o","v","e","r","y">>,
      <<"i","m","p","r","o","v","e">>,
      <<"s","t","r","o","n","g">>,
      <<"b","u","l","l","i","s","h">>,
      <<"o","p","t","i","m","i","s","t","i","c">>,
      <<"p","o","s","i","t","i","v","e">>,
      <<"o","u","t","p","e","r","f","o","r","m">>,
      <<"b","e","a","t">>,
      <<"e","x","c","e","e","d">>,
      <<"r","e","c","o","r","d">>,
      <<"a","c","h","i","e","v","e","m","e","n","t">>,
      <<"s","u","c","c","e","s","s">>,
      <<"b","o","o","m">>,
      <<"e","x","p","a","n","s","i","o","n">>>>

\* negative_words of analyze_sentiment
NEGATIVE_WORDS ==
    <<<<"d","e","c","l","i","n","e">>,
      <<"f","a","l","l">>,
      <<"d","r","o","p">>,
      <<"l","o","s","s">>,
      <<"d","e","f","i","c","i","t">>,
      <<"r","e","c","e","s","s","i","o","n">>,
      <<"w","o","r","s","e","n">>,
      <<"w","e","a","k">>,
      <<"b","e","a","r","i","s","h">>,
      <<"p","e","s","s","i","m","i","s","t","i","c">>,
      <<"n","e","g","a","t","i","v","e">>,
      <<"u","n","d","e","r","p","e","r","f","o","r","m">>,
      <<"m","i","s","s">>,
      <<"b","e","l","o","w">>,
      <<"c","r","i","s","i","s">>,
      <<"s","l","u","m","p">>,
      <<"i","n","f","l","a","t","i","o","n">>,
      <<"d","e","b","t">>,
      <<"d","e","f","a","u","l","t">>,
      <<"c","o","r","r","u","p","t","i","o","n">>>>

\* sum(1 for word in words if word in text_lower)
CountWords(words, text_lower) ==
    Cardinality({i \in 1..Len(words) : Contains(text_lower, words[i])})

\* Variant: a negative word weighs twice
sentiment_score_double_negative(positive_count, negative_count) ==
    Frac(positive_count - (2 * negative_count), positive_count + negative_count)

\* sentiment = (positive_count - negative_count) / total
sentiment_score(positive_count, negative_count) ==
    Frac(positive_count - negative_count, positive_count + negative_count)

\* The rest of analyze_sentiment once the words are counted: the int 0 when
\* no word of either list is in the text, a dict otherwise
sentiment_result(positive_count, negative_count) ==
    LET total     == positive_count + negative_count
        sentiment == sentiment_score(positive_count, negative_count)
    IN  IF total = 0 THEN [type |-> "int", value |-> 0]
        ELSE IF FracLess(Frac(1, 5), sentiment)
             THEN [type |-> "dict", score |-> sentiment, label |-> "positive",
                   confidence |-> FracMin(FracAbs(sentiment), Frac(4, 5))]
        ELSE IF FracLess(sentiment, Frac(0 - 1, 5))
             THEN [type |-> "dict", score |-> sentiment, label |-> "negative",
                   confidence |-> FracMin(FracAbs(sentiment), Frac(4, 5))]
        ELSE [type |-> "dict", score |-> sentiment, label |-> "neutral",
              confidence |-> Frac(1, 2)]

\* positive_count and negative_count of a lower-cased text
word_counts_of(text_lower) ==
    [positive |-> CountWords(POSITIVE_WORDS, text_lower),
     negative |-> CountWords(NEGATIVE_WORDS, text_lower)]

\* NigeriaNewsProcessor.analyze_sentiment
analyze_sentiment(text) ==
    Eager(LAMBDA counts : sentiment_result(counts.positive, counts.negative),
          Eager(word_counts_of, Lower(text)))

\* sentiment["score"]: TypeError when analyze_sentiment returned the int
ScoreRaises(sentiment) == sentiment.type # "dict"

\* article.get(key, default) on an article of news.json
\* f"{article.get('title', '')} {article.get('summary', '')}"
ArticleText(article) ==
    Get(article, "title", <<>>) \o <<" ">> \o Get(article, "summary", <<>>)

(* extract_economic_data.  re.findall scans the text from the left; under  *)
(* re.IGNORECASE a literal of a pattern is compared with the lower-cased   *)
(* text.  A position is an index into the text, 0 stands for "no match".   *)

IsDigit(c) == c \in Range(DigitChars)

\* The least member of a set of positions, 0 for the empty set
First(positions) ==
    IF positions = {} THEN 0 ELSE CHOOSE p \in positions : \A q \in positions : p <= q

\* The first position of lo..hi where Here holds, 0 when there is none:
\* the lower half is searched before the upper one
RECURSIVE Scan(_, _, _)
Scan(Here(_), lo, hi) ==
    IF lo > hi THEN 0
    ELSE IF lo = hi THEN (IF Here(lo) THEN lo ELSE 0)
    ELSE LET mid   == (lo + hi) \div 2
             lower == Scan(Here, lo, mid)
         IN  IF lower # 0 THEN lower ELSE Scan(Here, mid + 1, hi)

\* The position after the digits that start at p (\d* taken greedily)
DigitsEnd(text, p) ==
    Scan(LAMBDA q : q > Len(text) \/ ~IsDigit(text[q]), p, Len(text) + 1)

\* The position after the blanks that start at p (\s*)
SpacesEnd(text, p) ==
    Scan(LAMBDA q : q > Len(text) \/ ~IsSpace(text[q]), p, Len(text) + 1)

\* The literal word stands at position p of the lower-cased text
WordAt(lower, p, word) ==
    /\ p >= 1
    /\ p + Len(word) - 1 <= Len(lower)
    /\ SubSeq(lower, p, p + Len(word) - 1) = word

\* The first position from `from` on where the word stands
FindWord(lower, word, from) ==
    Scan(LAMBDA p : WordAt(lower, p, word), from, Len(lower))

DigitAt(text, p) == p >= 1 /\ p <= Len(text) /\ IsDigit(text[p])

\* The position after \d+\.?\d* matched at the digit at p
NumberEnd(text, p) ==
    LET e == DigitsEnd(text, p)
    IN  IF e <= Len(text) /\ text[e] = "." THEN DigitsEnd(text, e + 1) ELSE e

\* The position after (?:,\d+)* matched at e
RECURSIVE GroupsEnd(_, _)
GroupsEnd(text, e) ==
    IF e <= Len(text) /\ text[e] = "," /\ DigitAt(text, e + 1)
    THEN GroupsEnd(text, DigitsEnd(text, e + 1))
    ELSE e

\* The position after \d+(?:,\d+)*(?:\.\d+)? matched at the digit at p
AmountEnd(text, p) ==
    LET e == GroupsEnd(text, DigitsEnd(text, p))
    IN  IF e <= Len(text) /\ text[e] = "." /\ DigitAt(text, e + 1)
        THEN DigitsEnd(text, e + 1) ELSE e

\* (\d+\.?\d*)\s*% matches at p
PercentAt(text, p) ==
    /\ DigitAt(text, p)
    /\ LET q == SpacesEnd(text, NumberEnd(text, p))
       IN  q <= Len(text) /\ text[q] = "%"

\* One of the alternatives stands at position p
AnyWordAt(lower, p, words) == \E w \in words : WordAt(lower, p, w)

\* The position after the alternative that stands at p; no alternative of
\* a group of the patterns is the beginning of another one
AnyWordEnd(lower, p, words) ==
    p + Len(CHOOSE w \in words : WordAt(lower, p, w))

NoMatch == [start |-> 0, capture |-> <<>>]

\* The first match of  word.*?(\d+\.?\d*)\s*%  from position `from` on:
\* .*? stops at the first position where the rest of the pattern matches
WordThenPercent(text, word, from) ==
    LET lower == Lower(text)
        k == FindWord(lower, word, from)
        p == Scan(LAMBDA q : PercentAt(text, q), k + Len(word), Len(text))
    IN  IF k = 0 \/ p = 0 THEN NoMatch
        ELSE [start |-> k, capture |-> SubSeq(text, p, NumberEnd(text, p) - 1)]

\* The first match of  GDP.*?growth.*?(\d+\.?\d*)\s*%
GdpGrowthMatch(text) ==
    LET lower == Lower(text)
        k == FindWord(lower, <<"g","d","p">>, 1)
        g == IF k = 0 THEN 0 ELSE FindWord(lower, <<"g","r","o","w","t","h">>, k + 3)
        m == IF g = 0 THEN NoMatch ELSE WordThenPercent(text, <<"g","r","o","w","t","h">>, g)
    IN  IF m.start = 0 THEN NoMatch ELSE [start |-> k, capture |-> m.capture]

\* The first match of  word.*?\$(\d+\.?\d*)
WordThenDollars(text, word) ==
    LET lower == Lower(text)
        k == FindWord(lower, word, 1)
        d == Scan(LAMBDA q : text[q] = "$" /\ DigitAt(text, q + 1),
                  k + Len(word), Len(text))
    IN  IF k = 0 \/ d = 0 THEN NoMatch
        ELSE [start |-> k, capture |-> SubSeq(text, d + 1, NumberEnd(text, d + 1) - 1)]

\* The first match of
\* (\d+\.?\d*)\s*(?:naira|NGN)\s*(?:per|to)\s*(?:dollar|USD)
ExchangeRateMatch(text) ==
    LET lower == Lower(text)
        currency == {<<"n","a","i","r","a">>, <<"n","g","n">>}
        link     == {<<"p","e","r">>, <<"t","o">>}
        base     == {<<"d","o","l","l","a","r">>, <<"u","s","d">>}
        rest(p) ==
            LET c == SpacesEnd(text, NumberEnd(text, p))
            IN  /\ AnyWordAt(lower, c, currency)
                /\ LET l == SpacesEnd(text, AnyWordEnd(lower, c, currency))
                   IN  /\ AnyWordAt(lower, l, link)
                       /\ AnyWordAt(lower, SpacesEnd(text, AnyWordEnd(lower, l, link)), base)
        p == Scan(LAMBDA q : DigitAt(text, q) /\ rest(q), 1, Len(text))
    IN  IF p = 0 THEN NoMatch
        ELSE [start |-> p, capture |-> SubSeq(text, p, NumberEnd(text, p) - 1)]

\* The first match of
\* budget.*?N\s*(\d+(?:,\d+)*(?:\.\d+)?)\s*(?:trillion|billion|million)?
\* where N is the naira sign
BudgetAmountMatch(text) ==
    LET lower == Lower(text)
        k == FindWord(lower, <<"b","u","d","g","e","t">>, 1)
        n == Scan(LAMBDA q : text[q] = "U+20A6" /\ DigitAt(text, SpacesEnd(text, q + 1)),
                  k + 6, Len(text))
        p == SpacesEnd(text, n + 1)
    IN  IF k = 0 \/ n = 0 THEN NoMatch
        ELSE [start |-> k, capture |-> SubSeq(text, p, AmountEnd(text, p) - 1)]

\* The first match of
\* debt.*?(\d+(?:,\d+)*(?:\.\d+)?)\s*(?:trillion|billion|million)
DebtAmountMatch(text) ==
    LET lower == Lower(text)
        units == {<<"t","r","i","l","l","i","o","n">>, <<"b","i","l","l","i","o","n">>, <<"m","i","l","l","i","o","n">>}
        k == FindWord(lower, <<"d","e","b","t">>, 1)
        p == Scan(LAMBDA q : /\ DigitAt(text, q)
                             /\ AnyWordAt(lower, SpacesEnd(text, AmountEnd(text, q)), units),
                  k + 4, Len(text))
    IN  IF k = 0 \/ p = 0 THEN NoMatch
        ELSE [start |-> k, capture |-> SubSeq(text, p, AmountEnd(text, p) - 1)]

\* The first element of re.findall for a pattern with one group: the
\* captured text itself
OneGroup(match) ==
    [found |-> match.start # 0, type |-> "str", value |-> match.capture]

\* The first element of re.findall for  left|right  with one group each: a
\* tuple of the two groups, the group of the other alternative is ''; the
\* alternative that matches further left wins
TwoGroups(left, right) ==
    IF left.start # 0 /\ (right.start = 0 \/ left.start < right.start)
    THEN [found |-> TRUE, type |-> "tuple", value |-> <<left.capture, <<>>>>]
    ELSE IF right.start # 0
    THEN [found |-> TRUE, type |-> "tuple", value |-> <<<<>>, right.capture>>]
    ELSE [found |-> FALSE, type |-> "tuple", value |-> <<>>]

\* The keys of patterns
PATTERN_KEYS ==
    {"inflation_rate", "policy_rate", "exchange_rate", "gdp_growth",
     "budget_amount", "oil_price", "unemployment_rate", "debt_amount"}

\* matches[0] of re.findall(patterns[key], text, re.IGNORECASE)
findall_first(key, text) ==
    CASE key = "inflation_rate" ->
            OneGroup(WordThenPercent(text, <<"i","n","f","l","a","t","i","o","n">>, 1))
      [] key = "policy_rate" ->
            TwoGroups(WordThenPercent(text, <<"m","p","r">>, 1),
                      WordThenPercent(text, <<"p","o","l","i","c","y"," ","r","a","t","e">>, 1))
      [] key = "exchange_rate" -> OneGroup(ExchangeRateMatch(text))
      [] key = "gdp_growth" -> OneGroup(GdpGrowthMatch(text))
      [] key = "budget_amount" -> OneGroup(BudgetAmountMatch(text))
      [] key = "oil_price" ->
            TwoGroups(WordThenDollars(text, <<"o","i","l">>),
                      WordThenDollars(text, <<"c","r","u","d","e">>))
      [] key = "unemployment_rate" ->
            OneGroup(WordThenPercent(text, <<"u","n","e","m","p","l","o","y","m","e","n","t">>, 1))
      [] key = "debt_amount" -> OneGroup(DebtAmountMatch(text))

\* [m for m in match if m] for the first match: iterating a str yields its
\* characters, iterating a tuple yields its groups
flat_match(match) ==
    IF match.type = "str"
    THEN [i \in 1..Len(match.value) |-> <<match.value[i]>>]
    ELSE SelectSeq(match.value, LAMBDA m : m # <<>>)

\* str.replace(',', '')
RemoveCommas(s) == SelectSeq(s, LAMBDA c : c # ",")

DigitValue(c) == (CHOOSE i \in 1..10 : DigitChars[i] = c) - 1

RECURSIVE DigitsValue(_)
DigitsValue(s) ==
    IF s = <<>> THEN 0
    ELSE DigitsValue(SubSeq(s, 1, Len(s) - 1)) * 10 + DigitValue(s[Len(s)])

RECURSIVE PowerOfTen(_)
PowerOfTen(n) == IF n = 0 THEN 1 ELSE 10 * PowerOfTen(n - 1)

\* float(s) for a text of digits with at most one point, ValueError for
\* every other text
float(s) ==
    LET points == {i \in 1..Len(s) : s[i] = "."}
        digits == SelectSeq(s, IsDigit)
        point  == First(points)
    IN  IF \/ digits = <<>>
           \/ Cardinality(points) > 1
           \/ \E i \in 1..Len(s) : ~IsDigit(s[i]) /\ s[i] # "."
        THEN [raised |-> "ValueError", value |-> Frac(0, 1)]
        ELSE [raised |-> "",
              value  |-> Frac(DigitsValue(digits),
                              IF point = 0 THEN 1 ELSE PowerOfTen(Len(s) - point))]

\* What extracted[key] becomes from flat_matches[0]: the number, or the
\* text itself when float() raised
extracted_value(first) ==
    LET number == Eager(float, RemoveCommas(first))
    IN  IF number.raised = ""
        THEN [type |-> "float", value |-> number.value]
        ELSE [type |-> "str", value |-> first]

\* The (key, value) pairs of the dict `extracted` for a text
extracted_items(text) ==
    LET hits == {<<key, findall_first(key, text)>> : key \in PATTERN_KEYS}
    IN  {<<hit[1], Eager(extracted_value, flat_match(hit[2])[1])>> :
            hit \in {h \in hits : h[2].found /\ flat_match(h[2]) # <<>>}}

\* dict(items)
AsDict(items) ==
    [key \in {item[1] : item \in items} |->
        (CHOOSE item \in items : item[1] = key)[2]]

\* NigeriaNewsProcessor.extract_economic_data
extract_economic_data(text) == Eager(AsDict, Eager(extracted_items, text))

(* published_at as news.json holds it.  form "z" is the text the fetch     *)
(* stage writes (the date string s, which ends in 'Z'), "bare" is the same *)
(* text without the final 'Z', "junk" is the text 'yesterday' and "empty"  *)
(* is ''.                                                                  *)

NewsDate(form, s) == [form |-> form, s |-> s]

\* dt.isoformat()
Isoformat(dt) == NewsDate("bare", IsoZ(dt))

\* The text after the seconds, in the order of the characters: end of text
\* below '+' below '-' below '.' below 'Z'
NewsOffsetKey(s, ending) ==
    IF s.sign = "+" THEN <<1, s.hh, ending>>
    ELSE IF s.sign = "-" THEN <<2, s.hh, ending>>
    ELSE <<ending, 0, 0>>

\* A tuple whose order is the order of the texts: '' first, a digit below a
\* letter
NewsKey(v) ==
    IF v.form = "empty" THEN <<0, 0, 0, 0, 0, 0, 0, 0>>
    ELSE IF v.form = "junk" THEN <<2, 0, 0, 0, 0, 0, 0, 0>>
    ELSE LET ending == IF v.form = "z" THEN 4 ELSE 0
         IN  IF v.s.frac # 0
             THEN <<1, v.s.yr, v.s.slot, 3, v.s.frac>> \o NewsOffsetKey(v.s, ending)
             ELSE <<1, v.s.yr, v.s.slot>> \o NewsOffsetKey(v.s, ending) \o <<0, 0>>

\* a > b on two texts
NewsGreater(a, b) == TupleLess(NewsKey(b), NewsKey(a))

\* datetime.datetime.fromisoformat(v): a final 'Z' is read as UTC from
\* Python 3.11 on and rejected before; 'Z' after an offset, '' and
\* 'yesterday' are rejected by both
fromisoformat(v, v311) ==
    IF v.form = "bare"
    THEN [raised |-> "",
          dt |-> [yr |-> v.s.yr, slot |-> v.s.slot, us |-> v.s.frac,
                  aware |-> v.s.sign # "",
                  off |-> IF v.s.sign = "-" THEN 0 - v.s.hh ELSE v.s.hh]]
    ELSE IF v.form = "z" /\ v311 /\ v.s.sign = ""
    THEN [raised |-> "",
          dt |-> [yr |-> v.s.yr, slot |-> v.s.slot, us |-> v.s.frac,
                  aware |-> TRUE, off |-> 0]]
    ELSE [raised |-> "ValueError", dt |-> DT(0, 0, 0)]

\* clock - dt for the naive clock: TypeError when dt is aware
SubtractRaises(dt) == dt.aware

\* The whole hours of clock - dt, rounded down
DeltaHours(clock, dt) ==
    (clock.yr * HoursPerYear + clock.slot) - (dt.yr * HoursPerYear + dt.slot)
    - (IF clock.us < dt.us THEN 1 ELSE 0)

\* (clock - dt).days
DeltaDays(clock, dt) == DeltaHours(clock, dt) \div 24

\* (clock - dt).total_seconds() / 3600 < h
HoursSinceLess(clock, dt, h) == DeltaHours(clock, dt) < h

\* self.economic_indicators, in the order of the dict
ECONOMIC_INDICATORS ==
    <<[keyword |-> <<"i","n","f","l","a","t","i","o","n">>, weight |-> 10],
      [keyword |-> <<"g","r","o","w","t","h">>, weight |-> 8],
      [keyword |-> <<"n","a","i","r","a">>, weight |-> 9],
      [keyword |-> <<"d","o","l","l","a","r">>, weight |-> 9],
      [keyword |-> <<"C","B","N">>, weight |-> 8],
      [keyword |-> <<"i","n","t","e","r","e","s","t"," ","r","a","t","e">>, weight |-> 7],
      [keyword |-> <<"G","D","P">>, weight |-> 9],
      [keyword |-> <<"u","n","e","m","p","l","o","y","m","e","n","t">>, weight |-> 7],
      [keyword |-> <<"b","u","d","g","e","t">>, weight |-> 6],
      [keyword |-> <<"d","e","b","t">>, weight |-> 6],
      [keyword |-> <<"o","i","l">>, weight |-> 8],
      [keyword |-> <<"c","r","u","d","e">>, weight |-> 8],
      [keyword |-> <<"e","x","p","o","r","t">>, weight |-> 6],
      [keyword |-> <<"i","m","p","o","r","t">>, weight |-> 6],
      [keyword |-> <<"t","r","a","d","e">>, weight |-> 6]>>

\* self.government_entities
GOVERNMENT_ENTITIES ==
    <<<<"C","B","N">>,
      <<"C","e","n","t","r","a","l"," ","B","a","n","k">>,
      <<"N","N","P","C">>,
      <<"N","D","I","C">>,
      <<"N","B","S">>,
      <<"D","M","O">>,
      <<"F","i","n","a","n","c","e"," ","M","i","n","i","s","t","r","y">>,
      <<"B","u","d","g","e","t"," ","O","f","f","i","c","e">>,
      <<"F","I","R","S">>,
      <<"C","u","s","t","o","m","s">>>>

\* The window of detect_trends in days: ".days < 1"
RECENT_DAYS == 1

\* Variant: only the last day of the window counts
InWindow_last_day(days, window) == days = window - 1

\* (now - published).days < window
InWindow(days, window) == days < window

\* The condition of the list comprehension of detect_trends for one
\* article; an article without published_at gets the text of the clock
RecentTest(a, clock, v311, window) ==
    LET parsed == fromisoformat(Get(a, "published_at", Isoformat(clock)), v311)
    IN  IF parsed.raised # "" THEN [raised |-> parsed.raised, keep |-> FALSE]
        ELSE IF SubtractRaises(parsed.dt) THEN [raised |-> "TypeError", keep |-> FALSE]
        ELSE [raised |-> "", keep |-> InWindow(DeltaDays(clock, parsed.dt), window)]

\* recent_articles of detect_trends: the first article whose condition
\* raises ends the comprehension with its exception
recent_articles(articles, clock, v311, window) ==
    LET raising == {i \in 1..Len(articles) :
                        RecentTest(articles[i], clock, v311, window).raised # ""}
        first   == CHOOSE i \in raising : \A j \in raising : i <= j
    IN  IF raising # {}
        THEN [raised |-> RecentTest(articles[first], clock, v311, window).raised,
              recent |-> <<>>]
        ELSE [raised |-> "",
              recent |-> SelectSeq(articles,
                           LAMBDA a : RecentTest(a, clock, v311, window).keep)]

\* f"{title} {summary}".lower()
TrendText(article) == Lower(ArticleText(article))

\* "if keyword in text": the keyword as the dict spells it
KeywordInText(k, text) == Contains(text, ECONOMIC_INDICATORS[k].keyword)

\* "if entity.lower() in text"
EntityInText(e, text) == Contains(text, Lower(GOVERNMENT_ENTITIES[e]))

\* word_counts after the loop over recent_articles; 0 for an absent key
word_counts(recent) ==
    [k \in 1..Len(ECONOMIC_INDICATORS) |->
        Cardinality({i \in 1..Len(recent) : KeywordInText(k, TrendText(recent[i]))})]

\* entity_counts after the loop over recent_articles
entity_counts(recent) ==
    [e \in 1..Len(GOVERNMENT_ENTITIES) |->
        Cardinality({i \in 1..Len(recent) : EntityInText(e, TrendText(recent[i]))})]

\* The keys of a Counter in the order of their first increment: the
\* articles in turn, for each the table in its order
RECURSIVE InsertionOrder(_, _, _, _)
InsertionOrder(recent, n, InText(_, _), order) ==
    IF recent = <<>> THEN order
    ELSE LET text  == TrendText(Head(recent))
             fresh == SelectSeq([k \in 1..n |-> k],
                                LAMBDA k : InText(k, text) /\ k \notin Range(order))
         IN  InsertionOrder(Tail(recent), n, InText, order \o fresh)

\* The keys whose count is c or less, most frequent first, equal counts in
\* the order of the keys
RECURSIVE SortedByCount(_, _, _)
SortedByCount(order, counts, c) ==
    IF c = 0 THEN <<>>
    ELSE SelectSeq(order, LAMBDA k : counts[k] = c) \o SortedByCount(order, counts, c - 1)

\* Counter.most_common(n)
most_common(order, counts, most, n) == Take(SortedByCount(order, counts, most), n)

\* count / max(total_recent, 1)
TrendScore(count, total_recent) == Frac(count, Max(total_recent, 1))

\* detect_trends with ".days < window"
detect_trends_window(articles, clock, v311, window) ==
    LET filtered == recent_articles(articles, clock, v311, window)
        recent   == filtered.recent
        total_recent == Len(recent)
        words    == word_counts(recent)
        entities == entity_counts(recent)
        top_words == most_common(
            InsertionOrder(recent, Len(ECONOMIC_INDICATORS), KeywordInText, <<>>),
            words, total_recent, 10)
        top_entities == most_common(
            InsertionOrder(recent, Len(GOVERNMENT_ENTITIES), EntityInText, <<>>),
            entities, total_recent, 10)
    IN  IF filtered.raised # ""
        THEN [raised |-> filtered.raised]
        ELSE [raised |-> "",
              trending_keywords |->
                  [i \in 1..Len(top_words) |->
                      [keyword |-> ECONOMIC_INDICATORS[top_words[i]].keyword,
                       count   |-> words[top_words[i]],
                       score   |-> TrendScore(words[top_words[i]], total_recent),
                       weight  |-> ECONOMIC_INDICATORS[top_words[i]].weight]],
              trending_entities |->
                  [i \in 1..Len(top_entities) |->
                      [entity |-> GOVERNMENT_ENTITIES[top_entities[i]],
                       count  |-> entities[top_entities[i]],
                       score  |-> TrendScore(entities[top_entities[i]], total_recent)]],
              total_recent_articles |-> total_recent,
              analysis_time |-> Isoformat(clock)]

\* NigeriaNewsProcessor.detect_trends
detect_trends(articles, clock, v311) ==
    detect_trends_window(articles, clock, v311, RECENT_DAYS)

\* The distinct values of a sequence in the order of their first occurrence
RECURSIVE FirstSeen(_, _)
FirstSeen(values, order) ==
    IF values = <<>> THEN order
    ELSE FirstSeen(Tail(values),
                   IF Head(values) \in Range(order) THEN order
                   ELSE Append(order, Head(values)))

\* Counter(values).most_common(n) as a list of (key, count)
CounterMostCommon(values, n) ==
    LET counts == [v \in Range(values) |->
                      Cardinality({i \in 1..Len(values) : values[i] = v})]
        top    == most_common(FirstSeen(values, <<>>), counts, Len(values), n)
    IN  [i \in 1..Len(top) |-> [key |-> top[i], count |-> counts[top[i]]]]

RECURSIVE FracSum(_)
FracSum(scores) ==
    IF scores = <<>> THEN Frac(0, 1) ELSE FracAdd(Head(scores), FracSum(Tail(scores)))

\* statistics.mean(scores) if scores else 0
Mean(scores) ==
    IF scores = <<>> THEN Frac(0, 1)
    ELSE Frac(FracSum(scores).num, FracSum(scores).den * Len(scores))

\* "positive" if s > 0.2 else "negative" if s < -0.2 else "neutral"
ScoreLabel(s) ==
    IF FracLess(Frac(1, 5), s) THEN "positive"
    ELSE IF FracLess(s, Frac(0 - 1, 5)) THEN "negative"
    ELSE "neutral"

\* min(texts, default="") and max(texts, default="")
MinText(texts) ==
    IF texts = {} THEN NewsDate("empty", IsoZ(DT(0, 0, 0)))
    ELSE CHOOSE t \in texts : \A u \in texts : ~NewsGreater(t, u)

MaxText(texts) ==
    IF texts = {} THEN NewsDate("empty", IsoZ(DT(0, 0, 0)))
    ELSE CHOOSE t \in texts : \A u \in texts : ~NewsGreater(u, t)

\* The sentiments of the articles in their order
ArticleSentiments(articles) ==
    [i \in 1..Len(articles) |-> analyze_sentiment(ArticleText(articles[i]))]

\* NigeriaNewsProcessor.generate_analytics: sentiment["score"] raises
\* TypeError at the first article whose sentiment is the int
generate_analytics(articles, v311) ==
    LET sentiments == ArticleSentiments(articles)
        sentiment_scores == [i \in 1..Len(articles) |-> sentiments[i].score]
        article_lengths  == [i \in 1..Len(articles) |->
                                Frac(Len(ArticleText(articles[i])), 1)]
        parsed == [i \in 1..Len(articles) |->
                      fromisoformat(Get(articles[i], "published_at",
                                        NewsDate("empty", IsoZ(DT(0, 0, 0)))), v311)]
        timed  == SelectSeq([i \in 1..Len(articles) |-> i],
                            LAMBDA i : parsed[i].raised = "")
        hours  == [j \in 1..Len(timed) |-> parsed[timed[j]].dt.slot % 24]
        sources    == [i \in 1..Len(articles) |-> Get(articles[i], "source", "Unknown")]
        categories == [i \in 1..Len(articles) |-> Get(articles[i], "category", "general")]
        stamps == {articles[i].published_at :
                      i \in {j \in 1..Len(articles) :
                                /\ "published_at" \in DOMAIN articles[j]
                                /\ articles[j].published_at.form # "empty"}}
        bucket(label) == Cardinality({i \in 1..Len(articles) :
                                         ScoreLabel(sentiment_scores[i]) = label})
    IN  IF articles = <<>> THEN [raised |-> "", empty |-> TRUE]
        ELSE IF \E i \in 1..Len(articles) : ScoreRaises(sentiments[i])
        THEN [raised |-> "TypeError"]
        ELSE [raised |-> "",
              empty  |-> FALSE,
              total_articles |-> Len(articles),
              avg_sentiment  |-> Mean(sentiment_scores),
              avg_article_length |-> Mean(article_lengths),
              top_sources    |-> CounterMostCommon(sources, 5),
              top_categories |-> CounterMostCommon(categories, 5),
              peak_hours     |-> CounterMostCommon(hours, 3),
              sentiment_distribution |->
                  [positive |-> bucket("positive"),
                   neutral  |-> bucket("neutral"),
                   negative |-> bucket("negative")],
              sources_count    |-> Cardinality(Range(sources)),
              categories_count |-> Cardinality(Range(categories)),
              analysis_period  |-> [start |-> MinText(stamps), end |-> MaxText(stamps)]]

\* latest_article of one source after the loop: the running maximum of the
\* texts, starting from ''
RECURSIVE LatestArticle(_, _)
LatestArticle(stamps, latest) ==
    IF stamps = <<>> THEN latest
    ELSE LatestArticle(Tail(stamps),
                       IF NewsGreater(Head(stamps), latest) THEN Head(stamps) ELSE latest)

\* NigeriaNewsProcessor.calculate_update_frequency: every exception of the
\* try block gives "unknown"
calculate_update_frequency(latest_article, article_count, clock, v311) ==
    LET parsed == fromisoformat(latest_article, v311)
    IN  IF latest_article.form = "empty" \/ article_count < 2 THEN "unknown"
        ELSE IF parsed.raised # "" \/ SubtractRaises(parsed.dt) THEN "unknown"
        ELSE IF HoursSinceLess(clock, parsed.dt, 2) THEN "very_frequent"
        ELSE IF HoursSinceLess(clock, parsed.dt, 6) THEN "frequent"
        ELSE IF HoursSinceLess(clock, parsed.dt, 24) THEN "daily"
        ELSE "infrequent"

\* NigeriaNewsProcessor.process_sources_stats: sentiment["score"] raises
\* TypeError at the first article whose sentiment is the int
process_sources_stats(articles, clock, v311) ==
    LET sentiments == ArticleSentiments(articles)
        sourceOf(i) == Get(articles[i], "source", "Unknown")
        names  == {sourceOf(i) : i \in 1..Len(articles)}
        mine(source) == SelectSeq([i \in 1..Len(articles) |-> i],
                                  LAMBDA i : sourceOf(i) = source)
        stats(source) ==
            LET own    == mine(source)
                scores == [j \in 1..Len(own) |-> sentiments[own[j]].score]
                lengths == [j \in 1..Len(own) |->
                               Frac(Len(ArticleText(articles[own[j]])), 1)]
                categories == [j \in 1..Len(own) |->
                                  Get(articles[own[j]], "category", "general")]
                stamps == [j \in 1..Len(own) |->
                              Get(articles[own[j]], "published_at",
                                  NewsDate("empty", IsoZ(DT(0, 0, 0))))]
                latest == LatestArticle(stamps, NewsDate("empty", IsoZ(DT(0, 0, 0))))
            IN  [article_count     |-> Len(own),
                 dominant_category |-> CounterMostCommon(categories, 1)[1].key,
                 avg_sentiment     |-> Mean(scores),
                 sentiment_label   |-> ScoreLabel(Mean(scores)),
                 avg_article_length |-> Mean(lengths),
                 latest_article    |-> latest,
                 update_frequency  |->
                     calculate_update_frequency(latest, Len(own), clock, v311)]
    IN  IF \E i \in 1..Len(articles) : ScoreRaises(sentiments[i])
        THEN [raised |-> "TypeError"]
        ELSE [raised |-> "", sources |-> [source \in names |-> stats(source)]]

----------------------------------------------------------------------------
(* The processor's run: process_all on the news.json it finds *)

\* The body of the loop of process_all for one article
enhance(article) ==
    LET text == ArticleText(article)
        keywords == SelectSeq([k \in 1..Len(ECONOMIC_INDICATORS) |->
                                  ECONOMIC_INDICATORS[k].keyword],
                              LAMBDA keyword : Contains(Lower(text), Lower(keyword)))
        entities == SelectSeq(GOVERNMENT_ENTITIES,
                              LAMBDA entity : Contains(Lower(text), Lower(entity)))
    IN  [sentiment_analysis |-> analyze_sentiment(text),
         extracted_data     |-> extract_economic_data(text),
         matched_keywords   |-> keywords,
         matched_entities   |-> entities,
         relevance_score    |->
             Frac(Min((3 * Len(keywords)) + (2 * Len(entities)), 10), 10)] @@ article

\* An article as json.dump writes it and json.load reads it back: the
\* fetch stage's published_at is the text that ends in 'Z'
news_json(article) == [article EXCEPT !.published_at = NewsDate("z", @)]

\* Longest list of articles drawn from all the articles below
MaxNews == 1

\* Longest list of articles drawn from CoreNews
MaxCoreNews == 3

NewsArticle(title, summary, source, stamp) ==
    [title |-> title, url |-> "https://example.ng/n", summary |-> summary,
     source |-> source, published_at |-> stamp, type |-> "rss"]

\* clock + datetime.timedelta(hours=h)
PlusHours(dt, h) == [dt EXCEPT !.slot = @ + h]

\* One feed of three entries dated five, six and seven hours before the
\* clock; the third one holds no sentiment word
NewsFeed(clock) ==
    <<[title |-> TitleNaira, summary |-> SummaryEconomy,
       link |-> "https://example.ng/naira",
       published |-> RawDate("iso_z", clock.yr, clock.slot - 5, 0)],
      [title |-> TitleThree, summary |-> SummaryEconomy,
       link |-> "https://example.ng/inflation",
       published |-> RawDate("iso_z", clock.yr, clock.slot - 6, 0)],
      [title |-> TitleCbn, summary |-> SummaryEconomy,
       link |-> "https://example.ng/cbn",
       published |-> RawDate("iso_z", clock.yr, clock.slot - 7, 0)]>>

\* news.json as the fetch stage writes it for that feed
FetchedNews(clock) ==
    LET articles == fetch_rss_feed("free", "Nairametrics", NewsFeed(clock), clock)
    IN  [i \in 1..Len(articles) |-> news_json(articles[i])]

\* Articles the fetch stage wrote: the ones it makes of the feed, and the
\* third of its own sample articles
NewsFetched(clock) ==
    Range(FetchedNews(clock)) \cup {news_json(generate_sample_fallback(clock)[3])}

NewsInflation(clock) ==
    NewsArticle(<<"I","n","f","l","a","t","i","o","n"," ","h","i","t"," ","2","1",".","5","%"," ","i","n"," ","J","a","n","u","a","r","y">>, <<>>, "Nairametrics",
                Isoformat(MinusHours(clock, 3)))

\* dated 50 hours after the clock
NewsExample(clock) ==
    NewsArticle(<<"g","r","o","w","t","h",","," ","r","e","c","o","v","e","r","y",","," ","s","t","r","o","n","g">>, <<>>, "Nairametrics",
                Isoformat(PlusHours(clock, 50)))

NewsOld(clock) ==
    NewsArticle(TitleNaira, <<>>, "Punch Nigeria", Isoformat(MinusHours(clock, 30)))

\* no published_at
NewsUndated ==
    [title |-> <<"C","B","N"," ","r","e","c","o","r","d"," ","p","r","o","f","i","t">>, url |-> "https://example.ng/u",
     summary |-> <<>>, source |-> "Punch Nigeria", type |-> "rss"]

\* no word of either sentiment list
NewsNoWords(clock) ==
    NewsArticle(TitleCbn, SummaryEconomy, "Nairametrics",
                Isoformat(MinusHours(clock, 1)))

\* three positive words, two negative ones: a score of exactly 0.2
NewsBoundary(clock) ==
    NewsArticle(<<"g","r","o","w","t","h"," ","g","a","i","n"," ","p","r","o","f","i","t">>, <<"l","o","s","s"," ","d","e","f","i","c","i","t">>, "Punch Nigeria",
                Isoformat(MinusHours(clock, 2)))

\* dated exactly 24 hours before the clock
NewsDayOld(clock) ==
    NewsArticle(<<"G","D","P"," ","g","r","o","w","t","h"," ","b","e","a","t"," ","f","o","r","e","c","a","s","t"," ","a","t"," ","3",".","4","%">>, <<>>, "Nairametrics",
                Isoformat(MinusHours(clock, 24)))

\* thirteen of the fifteen keywords
NewsManyKeywords(clock) ==
    NewsArticle(<<"R","e","c","o","r","d"," ","i","n","f","l","a","t","i","o","n"," ","g","r","o","w","t","h"," ","n","a","i","r","a"," ","d","o","l","l","a","r"," ","i","n","t","e","r","e","s","t"," ","r","a","t","e"," ","u","n","e","m","p","l","o","y","m","e","n","t">>,
                <<"b","u","d","g","e","t"," ","d","e","b","t"," ","o","i","l"," ","c","r","u","d","e"," ","e","x","p","o","r","t"," ","i","m","p","o","r","t"," ","t","r","a","d","e">>, "The Cable",
                Isoformat(MinusHours(clock, 1)))

NewsJunkDate ==
    NewsArticle(TitleNaira, <<>>, "The Cable", NewsDate("junk", IsoZ(DT(0, 0, 0))))

NewsEmptyDate ==
    NewsArticle(<<"O","i","l"," ","e","x","p","o","r","t"," ","b","o","o","m">>, <<>>, "The Cable",
                NewsDate("empty", IsoZ(DT(0, 0, 0))))

\* published_at carries the offset +01:00 and no 'Z'
NewsOffset(clock) ==
    NewsArticle(<<"C","r","u","d","e"," ","a","t"," ","$","9","0",".","5"," ","a","s"," ","o","i","l"," ","p","r","i","c","e","s"," ","r","i","s","e">>, <<>>, "The Cable",
                Isoformat([MinusHours(clock, 1) EXCEPT !.aware = TRUE, !.off = 1]))

NewsPolicy(clock) ==
    NewsArticle(<<"R","e","c","o","r","d"," ","p","o","l","i","c","y"," ","r","a","t","e"," ","2","7",".","5"," ","%"," ","a","f","t","e","r"," ","M","P","R"," ","2","6","%">>, <<>>, "Punch Nigeria",
                Isoformat(MinusHours(clock, 7)))

\* Articles that raise nothing, some inside and some outside the window
CoreNews(clock) ==
    {NewsInflation(clock), NewsExample(clock), NewsOld(clock), NewsUndated,
     NewsDayOld(clock)}

AllNews(clock) ==
    NewsFetched(clock) \cup CoreNews(clock)
    \cup {NewsNoWords(clock), NewsBoundary(clock), NewsManyKeywords(clock),
          NewsJunkDate, NewsEmptyDate, NewsOffset(clock), NewsPolicy(clock)}

\* The article lists news.json may hold; the longer ones hold no article
\* twice
ListsOver(pools) ==
    UNION {[1..n -> pools.all] : n \in 0..MaxNews}
    \cup UNION {{list \in [1..n -> pools.core] :
                     \A i, j \in 1..n : list[i] = list[j] => i = j} :
                 n \in (MaxNews + 1)..MaxCoreNews}
    \cup {Take(pools.fetched, n) : n \in 2..Len(pools.fetched)}

NewsLists(clock) ==
    Eager(ListsOver, [all |-> AllNews(clock), core |-> CoreNews(clock),
                      fetched |-> FetchedNews(clock)])

InitProcess ==
    /\ pipeline = "free"
    /\ world = "news"
    /\ pc = "done"
    /\ src = 1
    /\ all_articles = <<>>
    /\ budget = 0
    /\ ticks = 0
    /\ collected = <<>>
    /\ deduped = <<>>
    /\ uncapped = <<>>
    /\ fetched = <<>>
    /\ files = [FreshDisk EXCEPT ![NewsFile] = "old"]
    /\ rpc = "idle"
    /\ now = DT(2025, StartSlot, 500000)
    /\ ppc = "load"
    /\ py311 \in BOOLEAN
    /\ news \in NewsLists(now)
    /\ processed_articles = <<>>
    /\ analytics = [raised |-> ""]
    /\ trends = [raised |-> ""]
    /\ sources_stats = [raised |-> ""]

\* articles = self.load_articles(); "if not articles: return".  Without
\* news.json load_articles returns []; json.load raises on a file that
\* does not hold the whole text, and that is not caught
LoadArticles ==
    /\ ppc = "load"
    /\ ppc' = IF files[NewsFile] \in {"empty", "partial"} THEN "aborted"
              ELSE IF files[NewsFile] = "absent" \/ news = <<>> THEN "returned"
              ELSE "enhance"
    /\ UNCHANGED <<py311, news, processed_articles, analytics, trends, sources_stats>>
    /\ UNCHANGED <<fetchvars, diskvars>>

\* The loop that fills processed_articles
EnhanceArticles ==
    /\ ppc = "enhance"
    /\ processed_articles' = [i \in 1..Len(news) |-> enhance(news[i])]
    /\ ppc' = "analytics"
    /\ UNCHANGED <<py311, news, analytics, trends, sources_stats>>
    /\ UNCHANGED <<fetchvars, diskvars>>

\* analytics = self.generate_analytics(articles); an exception leaves
\* process_all and ends the program
GenerateAnalytics ==
    /\ ppc = "analytics"
    /\ analytics' = generate_analytics(news, py311)
    /\ ppc' = IF analytics'.raised # "" THEN "aborted" ELSE "trends"
    /\ UNCHANGED <<py311, news, processed_articles, trends, sources_stats>>
    /\ UNCHANGED <<fetchvars, diskvars>>

\* trends = self.detect_trends(articles)
DetectTrends ==
    /\ ppc = "trends"
    /\ trends' = detect_trends(news, now, py311)
    /\ ppc' = IF trends'.raised # "" THEN "aborted" ELSE "sources"
    /\ UNCHANGED <<py311, news, processed_articles, analytics, sources_stats>>
    /\ UNCHANGED <<fetchvars, diskvars>>

\* sources_stats = self.process_sources_stats(articles)
ProcessSourcesStats ==
    /\ ppc = "sources"
    /\ sources_stats' = process_sources_stats(news, now, py311)
    /\ ppc' = IF sources_stats'.raised # "" THEN "aborted" ELSE "save"
    /\ UNCHANGED <<py311, news, processed_articles, analytics, trends>>
    /\ UNCHANGED <<fetchvars, diskvars>>

\* self.save_processed_data(...): the four results are written as they are
SaveProcessedData ==
    /\ ppc = "save"
    /\ files' = Written(ProcessedOutputs)
    /\ ppc' = "saved"
    /\ UNCHANGED <<py311, news, processed_articles, analytics, trends, sources_stats>>
    /\ UNCHANGED <<fetchvars, rpc>>

NextProcess ==
    \/ LoadArticles
    \/ EnhanceArticles
    \/ GenerateAnalytics
    \/ DetectTrends
    \/ ProcessSourcesStats
    \/ SaveProcessedData

\* Runs of process-data.py on a news.json of a few articles
SpecProcess == InitProcess /\ [][NextProcess]_vars

----------------------------------------------------------------------------
(* The three scripts over the disk: the end of main() of the fetch script, *)
(* process-data.py, generate-reports.py.  One of them runs; the process    *)
(* may end while main() or save_processed_data is writing.                 *)

\* The articles generate_daily_digest takes for today's: published_at is
\* there, fromisoformat reads it, and its date is the date of the clock
TodayArticles(articles, clock, v311) ==
    SelectSeq(articles, LAMBDA article :
        /\ "published_at" \in DOMAIN article
        /\ article.published_at.form # "empty"
        /\ LET read == fromisoformat(article.published_at, v311)
           IN  /\ read.raised = ""
               /\ read.dt.yr = clock.yr
               /\ read.dt.slot \div 24 = clock.slot \div 24)

\* ReportGenerator.generate_weekly_report: an exception (a missing or
\* unreadable input) is printed, and nothing is written
GenerateWeeklyReport ==
    /\ rpc = "weekly"
    /\ files' = IF \A name \in Range(WeeklyInputs) : Readable(name)
                THEN Written(WeeklyOutputs)
                ELSE files
    /\ rpc' = "digest"
    /\ UNCHANGED <<fetchvars, procvars>>

\* ReportGenerator.generate_daily_digest: without news.json, or without an
\* article of today, nothing is written
GenerateDailyDigest ==
    /\ rpc = "digest"
    /\ files' = IF Readable(NewsFile) /\ TodayArticles(news, now, py311) # <<>>
                THEN Written(<<DigestFile>>)
                ELSE files
    /\ rpc' = "exit"
    /\ UNCHANGED <<fetchvars, procvars>>

\* The process ends while main() is writing its k-th file
CrashInMain ==
    /\ pc = "done"
    /\ \E k \in 1..Len(MainOutputs(pipeline)) : \E cut \in {"empty", "partial", "new"} :
           files' = Interrupted(MainOutputs(pipeline), k, cut)
    /\ pc' = "crashed"
    /\ UNCHANGED <<pipeline, world, src, all_articles, now, budget, ticks,
                   collected, deduped, uncapped, fetched>>
    /\ UNCHANGED <<procvars, rpc>>

\* The process ends while save_processed_data is writing its k-th file
CrashInSave ==
    /\ ppc = "save"
    /\ \E k \in 1..Len(ProcessedOutputs) : \E cut \in {"empty", "partial", "new"} :
           files' = Interrupted(ProcessedOutputs, k, cut)
    /\ ppc' = "crashed"
    /\ UNCHANGED <<py311, news, processed_articles, analytics, trends, sources_stats>>
    /\ UNCHANGED <<fetchvars, rpc>>

\* The disks earlier complete runs leave: each script's files are all there
\* or all missing
Disks(p) ==
    {[name \in FileNames |->
        IF \/ name \in Range(MainOutputs(p)) /\ had[1]
           \/ name \in Range(ProcessedOutputs) /\ had[2]
           \/ name \in Range(WeeklyOutputs) \cup {DigestFile} /\ had[3]
        THEN "old" ELSE "absent"] : had \in [1..3 -> BOOLEAN]}

\* The articles news.json holds when it is there
DiskNews(clock) ==
    {<<>>, <<NewsInflation(clock)>>, Take(FetchedNews(clock), 2)}

InitFiles ==
    /\ pipeline \in {"free", "live"}
    /\ world = "disk"
    /\ src = 1
    /\ budget = 0
    /\ ticks = 0
    /\ collected = <<>>
    /\ deduped = <<>>
    /\ uncapped = <<>>
    /\ fetched = <<>>
    /\ now = DT(2025, StartSlot, 500000)
    /\ py311 \in BOOLEAN
    /\ files \in Disks(pipeline)
    /\ news \in IF Readable(NewsFile) THEN DiskNews(now) ELSE {<<>>}
    /\ processed_articles = <<>>
    /\ analytics = [raised |-> ""]
    /\ trends = [raised |-> ""]
    /\ sources_stats = [raised |-> ""]
    /\ \E script \in {"fetch", "process", "reports"} :
           /\ pc = IF script = "fetch" THEN "done" ELSE "idle"
           /\ all_articles = IF script = "fetch"
                             THEN add_fallback(pipeline, <<>>, now)
                             ELSE <<>>
           /\ ppc = IF script = "process" THEN "load" ELSE "idle"
           /\ rpc = IF script = "reports" THEN "weekly" ELSE "idle"

NextFiles ==
    \/ SaveNews
    \/ CrashInMain
    \/ LoadArticles
    \/ EnhanceArticles
    \/ GenerateAnalytics
    \/ DetectTrends
    \/ ProcessSourcesStats
    \/ SaveProcessedData
    \/ CrashInSave
    \/ GenerateWeeklyReport
    \/ GenerateDailyDigest

\* Runs of one of the three scripts on a disk earlier runs left
SpecFiles == InitFiles /\ [][NextFiles]_vars


----------------------------------------------------------------------------
(* Properties of the returned feed *)

\* The instant of the date string s is strictly after the clock's
AfterClock(s, clock) ==
    LET h == (clock.yr * HoursPerYear) + clock.slot
    IN  UtcHour(s) > h \/ (UtcHour(s) = h /\ s.frac > clock.us)

\* C1: every article of the returned feed, whichever adapter produced it,
\* has a non-empty title and a non-empty url
TitleAndUrlNonEmpty ==
    Done => \A i \in 1..Len(all_articles) :
                all_articles[i].title # <<>> /\ all_articles[i].url # ""

\* C2: no article of the returned feed is dated strictly after the time the
\* run returns at
NeverFutureDated ==
    Done => \A i \in 1..Len(all_articles) :
                ~AfterClock(all_articles[i].published_at, now)

\* C3: every published_at of the returned feed is printed in UTC (no zone
\* offset is left in it), and the text order of any two of them is the order
\* of the instants they denote
PublishedAtIsUtc ==
    Done => /\ \A i \in 1..Len(all_articles) : all_articles[i].published_at.sign = ""
            /\ \A i, j \in 1..Len(all_articles) :
                   StrLess(all_articles[i].published_at, all_articles[j].published_at)
                       <=> InstantLess(all_articles[i].published_at,
                                       all_articles[j].published_at)

\* C4: the returned feed is in descending order of published_at, the
\* strings compared as text, also when the fallback articles were added
SortedNewestFirst ==
    Done => \A i \in 1..(Len(all_articles) - 1) :
                ~StrLess(all_articles[i].published_at, all_articles[i + 1].published_at)

\* C5: the returned feed holds at most 50 (fetch_all_news) or 40 (fetch_all)
\* articles, and is a prefix of the ordered list it was cut from
FeedWithinCap ==
    Done => /\ Len(all_articles) <= (IF pipeline = "free" THEN 50 ELSE 40)
            /\ Len(all_articles) <= Len(uncapped)
            /\ \A i \in 1..Len(all_articles) : all_articles[i] = uncapped[i]

\* More articles were collected than the cap, and the feed was cut
FeedWasCut == Done /\ Len(all_articles) < Len(uncapped) /\ Len(collected) > 50

\* C6: a run that returns, whatever the adapters yielded, returns at least
\* five articles
AtLeastFiveArticles == Done => Len(all_articles) >= 5

\* Every source returned nothing, and the run returned
NothingCollected == Done /\ collected = <<>> /\ Len(all_articles) = 5

\* The synthetic articles of the feed, and the others, in feed order
SyntheticOf(articles) ==
    SelectSeq(articles, LAMBDA a : a.type \in {"sample", "current"})

RealOf(articles) ==
    SelectSeq(articles, LAMBDA a : a.type \notin {"sample", "current"})

\* An article but for its date
Undated(a) == [a EXCEPT !.published_at = IsoZ(DT(0, 0, 0))]

\* C7: with k < 5 articles left by the deduplication the returned feed is
\* the five synthetic articles (type sample / current) and those k, none of
\* them dropped; with k >= 5 the returned feed has no synthetic article
FallbackExactlyBelowFive ==
    Done =>
        LET k == Len(deduped)
        IN  IF k < 5
            THEN /\ Len(all_articles) = k + 5
                 /\ Len(SyntheticOf(all_articles)) = 5
                 /\ \A i \in 1..Len(all_articles) :
                        all_articles[i].type # (IF pipeline = "free" THEN "current" ELSE "sample")
                 /\ \A t \in Range(deduped) :
                        Len(SelectSeq(deduped, LAMBDA a : Undated(a) = Undated(t)))
                          = Len(SelectSeq(all_articles, LAMBDA a : Undated(a) = Undated(t)))
            ELSE SyntheticOf(all_articles) = <<>>

\* Four real articles were left, and the run returned nine
FourRealArticles == Done /\ Len(deduped) = 4 /\ Len(RealOf(all_articles)) = 4

\* C8: remove_duplicates applied to its own output returns it unchanged,
\* in both pipelines
DedupIdempotent ==
    pc = "dates" => remove_duplicates(pipeline, deduped) = deduped

\* The deduplication dropped an article and kept more than one
DedupDroppedSome ==
    pc = "dates" /\ Len(deduped) >= 2 /\ Len(deduped) < Len(collected)

----------------------------------------------------------------------------
(* Properties of remove_duplicates (fetch-news-free.py) *)

\* The words of a title once case and punctuation are normalised
TitleWords(title) == Split(NormalizedTitle(title))

\* longer is shorter with one word inserted among its first five
OneWordInserted(shorter, longer) ==
    /\ Len(longer) = Len(shorter) + 1
    /\ \E k \in 1..Min(5, Len(longer)) :
           shorter = SubSeq(longer, 1, k - 1) \o SubSeq(longer, k + 1, Len(longer))

\* The two titles differ only in letter case, punctuation and at most one
\* word inserted among the first five
NearDuplicateTitles(s, t) ==
    LET a == TitleWords(s)
        b == TitleWords(t)
    IN  a = b \/ OneWordInserted(a, b) \/ OneWordInserted(b, a)

\* The title has at least two words, and its first five are pairwise distinct
DistinctFirstWords(title) ==
    LET w == Take(TitleWords(title), 5)
    IN  Len(w) >= 2 /\ Cardinality(Range(w)) = Len(w)

\* Two articles were collected, by the free pipeline, and deduplicated
PairDeduplicated == pc = "dates" /\ pipeline = "free" /\ Len(collected) = 2

\* C9 as stated: of two titles that differ only in case, punctuation and at
\* most one word inserted among the first five, in whichever order they
\* arrive, only the first is kept
NearDuplicatesMerged ==
    PairDeduplicated /\ NearDuplicateTitles(collected[1].title, collected[2].title)
        => deduped = <<collected[1]>>

\* C9: of two titles that differ only in case, punctuation and at most one
\* word inserted among the first five, each of at least two words and with
\* its first five words pairwise distinct, in whichever order they arrive,
\* only the first is kept
DistinctNearDuplicatesMerged ==
    (/\ PairDeduplicated
     /\ NearDuplicateTitles(collected[1].title, collected[2].title)
     /\ DistinctFirstWords(collected[1].title)
     /\ DistinctFirstWords(collected[2].title))
        => deduped = <<collected[1]>>

\* The longer title arrived first, the shorter one was dropped
LongerThenShorterMerged ==
    /\ PairDeduplicated
    /\ OneWordInserted(TitleWords(collected[2].title), TitleWords(collected[1].title))
    /\ DistinctFirstWords(collected[1].title)
    /\ DistinctFirstWords(collected[2].title)
    /\ deduped = <<collected[1]>>

\* set(title.split()[:5]) of the normalised title of an article
Words5(article) == FirstWords(NormalizedTitle(article.title))

\* The Jaccard overlap |A \cap B| / |A \cup B| reaches 0.6 (two empty sets
\* do not overlap)
JaccardReaches(A, B) ==
    10 * Cardinality(A \cap B) >= 6 * Max(Cardinality(A \cup B), 1)

\* More than 0.6 of the words of A are words of B
ContainedAbove(A, B) ==
    5 * Cardinality(A \cap B) > 3 * Max(Cardinality(A), 1)

\* The list a deduplication returns that drops an article exactly when
\* Test holds of its words and the words of an article kept before it
ReferenceDedup(articles, Test(_, _)) ==
    LET n == Len(articles)
        keep == CHOOSE f \in [1..n -> BOOLEAN] :
                    \A j \in 1..n :
                        f[j] <=> ~\E i \in 1..(j - 1) :
                                     f[i] /\ Test(Words5(articles[j]), Words5(articles[i]))
        pick[m \in 0..n] ==
            IF m = 0 THEN <<>>
            ELSE IF keep[m] THEN Append(pick[m - 1], articles[m]) ELSE pick[m - 1]
    IN  pick[n]

\* C10 as stated: the result of remove_duplicates is that of a reference
\* deduplication whose test is a Jaccard overlap of at least 0.6
DedupIsJaccard ==
    pc = "dates" /\ pipeline = "free"
        => deduped = ReferenceDedup(collected, JaccardReaches)

\* C10: an article is dropped exactly when more than 0.6 of its own first
\* five title words are among the first five words of a title kept before it
DedupIsContainment ==
    pc = "dates" /\ pipeline = "free"
        => deduped = ReferenceDedup(collected, ContainedAbove)

\* A title was dropped whose Jaccard overlap with the one kept is below 0.6
DroppedBelowJaccard ==
    /\ PairDeduplicated
    /\ deduped = <<collected[1]>>
    /\ ~JaccardReaches(Words5(collected[2]), Words5(collected[1]))

----------------------------------------------------------------------------
(* Properties of the processor *)

\* The articles of news.json have been enhanced
Enhanced == Len(processed_articles) = Len(news) /\ news # <<>>

\* The numbers of positive and of negative words in the text of article i
MatchedWords(i) == Eager(word_counts_of, Lower(ArticleText(news[i])))

SentimentOf(i) == processed_articles[i].sentiment_analysis

\* C11: analyze_sentiment returns a record with score, label and confidence
\* for every text, and for a text that holds no word of the positive list
\* and no word of the negative list the record {score: 0, label: neutral,
\* confidence: 0.5}.
SentimentIsRecord ==
    \A i \in 1..Len(processed_articles) :
        /\ SentimentOf(i).type = "dict"
        /\ (MatchedWords(i).positive + MatchedWords(i).negative = 0
               => /\ FracEq(SentimentOf(i).score, Frac(0, 1))
                  /\ SentimentOf(i).label = "neutral"
                  /\ FracEq(SentimentOf(i).confidence, Frac(1, 2)))

\* C12: the score analyze_sentiment computes is in [-1, 1]: with p matched
\* positive words and n matched negative words, p + n > 0, it is
\* (p - n) / (p + n), and the bare 0 of a text without any such word is in
\* the range too.
ScoreInRange ==
    \A i \in 1..Len(processed_articles) :
        IF SentimentOf(i).type = "dict"
        THEN /\ MatchedWords(i).positive + MatchedWords(i).negative > 0
             /\ FracEq(SentimentOf(i).score,
                       Frac(MatchedWords(i).positive - MatchedWords(i).negative,
                            MatchedWords(i).positive + MatchedWords(i).negative))
             /\ ~FracLess(SentimentOf(i).score, Frac(0 - 1, 1))
             /\ ~FracLess(Frac(1, 1), SentimentOf(i).score)
        ELSE SentimentOf(i).value = 0

\* An enhanced article whose text holds words of both lists, more of the
\* positive one
MixedTextScored ==
    /\ Enhanced
    /\ \E i \in 1..Len(news) :
           /\ MatchedWords(i).negative > 0
           /\ MatchedWords(i).positive > MatchedWords(i).negative

\* C13: analyze_sentiment labels every text: positive iff score > 0.2,
\* negative iff score < -0.2, neutral otherwise, with confidence
\* min(|score|, 0.8) when not neutral and 0.5 when neutral; a text with a
\* positive word and no negative word gets 1.0, positive, 0.8.
LabelFollowsScore ==
    \A i \in 1..Len(processed_articles) :
        /\ SentimentOf(i).type = "dict"
        /\ SentimentOf(i).label = "positive" <=> FracLess(Frac(1, 5), SentimentOf(i).score)
        /\ SentimentOf(i).label = "negative" <=> FracLess(SentimentOf(i).score, Frac(0 - 1, 5))
        /\ SentimentOf(i).label \in {"positive", "negative", "neutral"}
        /\ FracEq(SentimentOf(i).confidence,
                  IF SentimentOf(i).label = "neutral" THEN Frac(1, 2)
                  ELSE FracMin(FracAbs(SentimentOf(i).score), Frac(4, 5)))
        /\ (MatchedWords(i).positive > 0 /\ MatchedWords(i).negative = 0
               => /\ FracEq(SentimentOf(i).score, Frac(1, 1))
                  /\ SentimentOf(i).label = "positive"
                  /\ FracEq(SentimentOf(i).confidence, Frac(4, 5)))

\* generate_analytics has run on news.json
AnalyticsDone == ppc \in {"trends", "sources", "save", "saved", "aborted"}

\* process_sources_stats has run on news.json
SourcesDone == ppc \in {"save", "saved"}

\* The number of articles analyze_sentiment labels with the label
Labelled(label) ==
    Cardinality({i \in 1..Len(processed_articles) :
                    SentimentOf(i).type = "dict" /\ SentimentOf(i).label = label})

\* The buckets of sentiment_distribution are the numbers of articles with
\* each label, and a source's sentiment_label follows the same thresholds
BucketsMatchLabels ==
    /\ analytics.sentiment_distribution.positive = Labelled("positive")
    /\ analytics.sentiment_distribution.neutral = Labelled("neutral")
    /\ analytics.sentiment_distribution.negative = Labelled("negative")
    /\ analytics.total_articles = Len(news)
    /\ analytics.sentiment_distribution.positive
         + analytics.sentiment_distribution.neutral
         + analytics.sentiment_distribution.negative = analytics.total_articles
    /\ SourcesDone =>
         \A source \in DOMAIN sources_stats.sources :
            LET stats == sources_stats.sources[source]
            IN  /\ stats.sentiment_label = "positive"
                     <=> FracLess(Frac(1, 5), stats.avg_sentiment)
                /\ stats.sentiment_label = "negative"
                     <=> FracLess(stats.avg_sentiment, Frac(0 - 1, 5))
                /\ stats.sentiment_label \in {"positive", "negative", "neutral"}

\* C14: for every article list given to generate_analytics the buckets of
\* sentiment_distribution equal the numbers of articles analyze_sentiment
\* labels positive, neutral and negative, so they sum to total_articles;
\* process_sources_stats uses the same thresholds for sentiment_label.
DistributionMatchesLabels ==
    AnalyticsDone => analytics.raised = "" /\ BucketsMatchLabels

\* The patterns that match a text, each with the first element of findall
PatternHits(text) ==
    {hit \in {[key |-> key, match |-> findall_first(key, text)] : key \in PATTERN_KEYS} :
        hit.match.found}

\* The first non-empty capture group of a match as a number: the whole
\* captured text, commas removed
CapturedNumber(match) ==
    Eager(float, RemoveCommas(IF match.type = "str" THEN match.value
                              ELSE flat_match(match)[1])).value

\* The extracted value of every matching pattern with as many groups as
\* `type` says ("str": one group, "tuple": two) is the captured number
CapturedNumberExtracted(type) ==
    \A i \in 1..Len(processed_articles) :
        \A hit \in Eager(PatternHits, ArticleText(news[i])) :
            hit.match.type = type
            => /\ hit.key \in DOMAIN processed_articles[i].extracted_data
               /\ processed_articles[i].extracted_data[hit.key].type = "float"
               /\ FracEq(processed_articles[i].extracted_data[hit.key].value,
                         CapturedNumber(hit.match))

\* C15: for every pattern of extract_economic_data that matches, the
\* extracted value is the first non-empty capture group, taken as the whole
\* captured number, for patterns with one group and for patterns with two
\* alternative groups alike; "Inflation hit 21.5% in January" yields
\* inflation_rate == 21.5.
WholeNumberExtracted ==
    /\ CapturedNumberExtracted("str")
    /\ CapturedNumberExtracted("tuple")
    /\ \A i \in 1..Len(processed_articles) :
           news[i] = NewsInflation(now)
           => FracEq(processed_articles[i].extracted_data.inflation_rate.value,
                     Frac(215, 10))

\* detect_trends has run on news.json and returned
TrendsReturned == ppc \in {"sources", "save", "saved"}

\* published_at of article i read as detect_trends reads it
PublishedOf(i) ==
    fromisoformat(Get(news[i], "published_at", Isoformat(now)), py311).dt

\* 0 <= now - published_at < 24h for article i
InLastDay(i) ==
    /\ DeltaHours(now, PublishedOf(i)) >= 0
    /\ DeltaHours(now, PublishedOf(i)) < 24

\* The articles inside the 24 hours before the clock whose text holds the
\* word, without regard to case
CountInLastDay(word) ==
    Cardinality({i \in 1..Len(news) :
                    InLastDay(i) /\ Contains(TrendText(news[i]), Lower(word))})

\* C16: detect_trends counts an article iff 0 <= now - published_at < 24h:
\* total_recent_articles is the number of such articles, and an article
\* dated after now or 24 hours or more before now adds to no keyword or
\* entity count.
OnlyLastDayCounted ==
    TrendsReturned =>
        /\ trends.total_recent_articles =
               Cardinality({i \in 1..Len(news) : InLastDay(i)})
        /\ \A j \in 1..Len(trends.trending_keywords) :
               trends.trending_keywords[j].count
                   <= CountInLastDay(trends.trending_keywords[j].keyword)
        /\ \A j \in 1..Len(trends.trending_entities) :
               trends.trending_entities[j].count
                   <= CountInLastDay(trends.trending_entities[j].entity)

\* The articles detect_trends keeps as recent
RecentNews == recent_articles(news, now, py311, RECENT_DAYS).recent

\* The recent articles whose title + summary holds the word, without
\* regard to case
CountInRecent(word) ==
    Cardinality({i \in 1..Len(RecentNews) :
                    Contains(TrendText(RecentNews[i]), Lower(word))})

\* The count trending_keywords reports for the keyword, 0 when it is absent
ReportedKeywordCount(keyword) ==
    LET at == {j \in 1..Len(trends.trending_keywords) :
                  trends.trending_keywords[j].keyword = keyword}
    IN  IF at = {} THEN 0
        ELSE trends.trending_keywords[CHOOSE j \in at : TRUE].count

\* The count trending_entities reports for the entity, 0 when it is absent
ReportedEntityCount(entity) ==
    LET at == {j \in 1..Len(trends.trending_entities) :
                  trends.trending_entities[j].entity = entity}
    IN  IF at = {} THEN 0
        ELSE trends.trending_entities[CHOOSE j \in at : TRUE].count

\* Every configured government entity is reported with the number of
\* recent articles that hold it
EntityCountsExact ==
    \A j \in 1..Len(GOVERNMENT_ENTITIES) :
        ReportedEntityCount(GOVERNMENT_ENTITIES[j])
            = CountInRecent(GOVERNMENT_ENTITIES[j])

\* C17: detect_trends reports, for every configured economic keyword ("CBN"
\* and "GDP" included) and every configured government entity, the number
\* of recent articles whose title + summary holds it as a case-insensitive
\* substring.
CountsIgnoreCase ==
    TrendsReturned =>
        /\ \A j \in 1..Len(ECONOMIC_INDICATORS) :
               ReportedKeywordCount(ECONOMIC_INDICATORS[j].keyword)
                   = CountInRecent(ECONOMIC_INDICATORS[j].keyword)
        /\ EntityCountsExact

\* The widest window compared, in days
MaxWindow == 2

\* What detect_trends counts with ".days < window" on news.json: every
\* keyword's count, every entity's count and the number of recent articles
WindowCounts(window) ==
    LET recent == recent_articles(news, now, py311, window).recent
    IN  [words    |-> word_counts(recent),
         entities |-> entity_counts(recent),
         total    |-> Len(recent)]

\* No count of the narrower window exceeds that of the wider one
CountsAtMost(narrow, wide) ==
    /\ \A k \in 1..Len(ECONOMIC_INDICATORS) : narrow.words[k] <= wide.words[k]
    /\ \A e \in 1..Len(GOVERNMENT_ENTITIES) : narrow.entities[e] <= wide.entities[e]
    /\ narrow.total <= wide.total

\* Some keyword's count and the number of recent articles both grow
CountsGrow(narrow, wide) ==
    /\ \E k \in 1..Len(ECONOMIC_INDICATORS) : narrow.words[k] < wide.words[k]
    /\ narrow.total < wide.total

BatchNeverAborts ==
    Len(news) > 0 =>
        /\ ppc # "aborted"
        /\ analytics.raised = ""
        /\ trends.raised = ""
        /\ sources_stats.raised = ""

\* The articles of news.json that name the source
ArticlesOf(source) ==
    {i \in 1..Len(news) : Get(news[i], "source", "Unknown") = source}

\* The articles of the source that carry a published_at
DatedOf(source) ==
    {i \in ArticlesOf(source) : "published_at" \in DOMAIN news[i]}

\* Every published_at of the source is a UTC timestamp, as the fetch
\* stage writes it ('Z') or without a zone
WellStamped(source) ==
    \A i \in DatedOf(source) :
        news[i].published_at.form \in {"z", "bare"} /\ news[i].published_at.s.sign = ""

\* The instant a published_at names
InstantOf(i) ==
    [yr |-> news[i].published_at.s.yr, slot |-> news[i].published_at.s.slot,
     us |-> news[i].published_at.s.frac, aware |-> FALSE, off |-> 0]

\* The whole hours between the latest published_at of the source and now
HoursSinceLatest(source) ==
    LET latest == CHOOSE i \in DatedOf(source) :
                      \A j \in DatedOf(source) : ~DtGreater(InstantOf(j), InstantOf(i))
    IN  DeltaHours(now, InstantOf(latest))

\* The class the hours give
FrequencyClass(source) ==
    IF Cardinality(ArticlesOf(source)) < 2 \/ DatedOf(source) = {} THEN "unknown"
    ELSE IF HoursSinceLatest(source) < 2 THEN "very_frequent"
    ELSE IF HoursSinceLatest(source) < 6 THEN "frequent"
    ELSE IF HoursSinceLatest(source) < 24 THEN "daily"
    ELSE "infrequent"

\* The statistics of every well-stamped source carry the class of its hours
ClassifiedByHours(stats) ==
    stats.raised = "" =>
        \A source \in DOMAIN stats.sources :
            WellStamped(source) =>
                stats.sources[source].update_frequency = FrequencyClass(source)

\* C20: process_sources_stats gives each source the update_frequency of the
\* hours h between its latest published_at, as the fetch stage writes it,
\* and now: very_frequent for h < 2, frequent for 2 <= h < 6, daily for
\* 6 <= h < 24, infrequent from 24 on, and unknown only for a source with
\* fewer than 2 articles or no timestamp.  The statistics are those the run
\* stored, and those process_sources_stats returns on the news.json of a
\* run that ended before it.
FrequencyFollowsHours ==
    /\ SourcesDone => ClassifiedByHours(sources_stats)
    /\ ppc = "aborted" =>
           Eager(ClassifiedByHours, process_sources_stats(news, now, py311))

----------------------------------------------------------------------------
(* Properties of the dates *)

\* fetch_all_news (free) has just run its step 6 on what remove_duplicates
\* returned
DatesClamped == pipeline = "free" /\ pc = "sort"

\* C28: the future-date clamp of fetch_all_news changes published_at only for
\* articles dated strictly after the clock: an article that parse_date dated
\* at or before the clock (and that holds no year for step 6 to rewrite)
\* leaves step 6 with the published_at it entered with
ClampOnlyFuture ==
    DatesClamped =>
        \A i \in 1..Len(deduped) :
            (/\ deduped[i].type \in {"rss", "google_news", "twitter"}
             /\ ~AfterClock(deduped[i].published_at, now)
             /\ ~HasToken(deduped[i].published_at, 2024))
                => all_articles[i].published_at = deduped[i].published_at

\* The raw date string an adapter hands to parse_date
raw_published(p, adapter, entry) ==
    IF adapter = "rss" /\ p = "free"
    THEN Get(entry, "published", Get(entry, "updated", EmptyDate))
    ELSE Get(entry, "published", EmptyDate)

\* The articles one fetch of a feed adapter made, each with the raw entry it
\* was made of
MadeBy(fetch) ==
    IF fetch.adapter \notin {"rss", "google", "twitter"} THEN {}
    ELSE {[adapter |-> fetch.adapter, entry |-> fetch.feed[i],
           article |-> fetch.made[i][1]] :
             i \in {i \in 1..Len(fetch.made) : fetch.made[i] # <<>>}}

\* The articles the feed adapters made so far
MadeOfEntries == UNION {MadeBy(fetched[k]) : k \in 1..Len(fetched)}

\* C26: parse_date applies the freshness rewrite: an article made of an entry
\* whose raw date holds the year before the current one, or the one before
\* that, is dated in the current year, whether or not a format matched, and
\* when a format matched the rest of its timestamp is the parsed one
FreshnessRewritten ==
    \A made \in MadeOfEntries :
        LET raw == raw_published(pipeline, made.adapter, made.entry)
        IN  (raw.fmt # "empty" /\ raw.yr \in {now.yr - 1, now.yr - 2})
                => /\ made.article.published_at.yr = now.yr
                   /\ raw.fmt \in Range(FORMATS)
                        => made.article.published_at =
                             [IsoZ(Strptime(raw, raw.fmt)) EXCEPT !.yr = now.yr]

\* The date step of the pipeline has just run: step 6 of fetch_all_news,
\* ensure_current_dates of fetch_all
DatesFixed ==
    \/ pipeline = "free" /\ pc = "sort"
    \/ pipeline = "live" /\ pc = "fallback"

\* C27: after the date step no published_at of the feed holds the year
\* before the current one, or the one before that
NoStaleYear ==
    DatesFixed =>
        \A i \in 1..Len(all_articles) :
            /\ ~HasToken(all_articles[i].published_at, now.yr - 1)
            /\ ~HasToken(all_articles[i].published_at, now.yr - 2)

----------------------------------------------------------------------------
(* Properties of the adapters *)

\* The summary of the source entry, as the adapter reads it
source_summary(p, adapter, entry) ==
    IF adapter = "rss" /\ p = "free"
    THEN Get(entry, "summary", Get(entry, "description", <<>>))
    ELSE Get(entry, "summary", <<>>)

\* C25: the summary of every article an adapter made of a feed entry that
\* carries a summary (RSS, Google News) is the cleaned summary of the entry,
\* cut to 200 characters with "..." appended when it was longer
SummaryTruncatedTo200 ==
    \A made \in MadeOfEntries :
        made.adapter \in {"rss", "google"}
            => made.article.summary =
                 Truncate(clean_text(source_summary(pipeline, made.adapter, made.entry)),
                          200)

\* The lower-cased text holds at least one of Config.KEYWORDS, lower-cased
HoldsKeyword(text) ==
    Eager(LAMBDA lowered :
              \E k \in 1..Len(KEYWORDS) : Contains(lowered, Lower(KEYWORDS[k])),
          Lower(text))

\* The text the relevance filter of the adapter read for a source entry: the
\* cleaned title and the whole cleaned summary (RSS), the cleaned title
\* (Google News)
FilterText(p, adapter, entry) ==
    IF adapter = "rss" THEN rss_filter_text(p, entry)
    ELSE clean_text(Get(entry, "title", <<>>))

\* The text of the article itself that the claim names
OwnText(article) ==
    IF article.type = "google_news" THEN article.title
    ELSE article.title \o <<" ">> \o article.summary

\* C24 (as stated): the title and summary of every rss article of the
\* returned feed, and the title of every google_news article, hold a keyword
OwnTextHoldsKeyword ==
    Done => \A i \in 1..Len(all_articles) :
                all_articles[i].type \in {"rss", "google_news"}
                    => HoldsKeyword(OwnText(all_articles[i]))

\* C24 (amended): every rss or google_news article was made of a source
\* entry whose filter text (the summary not yet cut) holds a keyword, and its
\* own text holds one when its summary was not cut; an entry whose filter
\* text holds none made no article; every rss or google_news article of the
\* returned feed is one of the articles so made.  (A record of fetched is
\* the last one in the state its fetch leads to, and never changes.)
PassedRelevanceFilter ==
    /\ fetched # <<>> =>
         LET last == fetched[Len(fetched)]
         IN  last.adapter \in {"rss", "google"} =>
               /\ \A made \in MadeBy(last) :
                      /\ HoldsKeyword(FilterText(pipeline, made.adapter, made.entry))
                      /\ Len(clean_text(source_summary(pipeline, made.adapter,
                                                       made.entry))) <= 200
                           => HoldsKeyword(OwnText(made.article))
               /\ \A i \in 1..Len(last.made) :
                      ~HoldsKeyword(FilterText(pipeline, last.adapter, last.feed[i]))
                          => last.made[i] = <<>>
    /\ Done => \A i \in 1..Len(all_articles) :
                   all_articles[i].type \in {"rss", "google_news"}
                       => \E made \in MadeOfEntries :
                              /\ made.article.type = all_articles[i].type
                              /\ made.article.title = all_articles[i].title
                              /\ made.article.summary = all_articles[i].summary
                              /\ made.article.url = all_articles[i].url

\* An rss article of the returned feed whose summary was cut, and whose own
\* title and summary hold no keyword
CutSummaryLostKeyword ==
    /\ Done
    /\ \E i \in 1..Len(all_articles) :
           /\ all_articles[i].type = "rss"
           /\ Len(all_articles[i].summary) > 200
           /\ ~HoldsKeyword(OwnText(all_articles[i]))

\* The fetch of the adapters is over
FetchingOver == pc \notin {"rss", "google", "twitter", "scrape_check", "web"}

\* The numbers of the sources of an adapter that were fetched
FetchedOf(adapter) ==
    {fetched[k].index : k \in {k \in 1..Len(fetched) : fetched[k].adapter = adapter}}

\* C22: a fetch that raised, while the feed was retrieved or while an entry
\* was processed, contributed no article, and every source, url and topic
\* was still fetched (and every scrape target, when any was)
AdapterFailureIsLocal ==
    /\ \A k \in 1..Len(fetched) :
           fetched[k].raised => Concat(fetched[k].made) = <<>>
    /\ FetchingOver =>
           /\ FetchedOf("rss") = 1..Len(SOURCES(pipeline))
           /\ FetchedOf("google") = 1..Len(GOOGLE_URLS(pipeline))
           /\ FetchedOf("twitter") = 1..Len(TOPICS(pipeline))
           /\ FetchedOf("web") \in {{}, 1..Len(SCRAPE_TARGETS(pipeline))}

----------------------------------------------------------------------------
(* Properties of the output files *)

\* C21: a reader of api/news.json or of a file of api/processed finds the
\* whole text of an earlier run or the whole text of this run (or no file
\* yet), never an empty or half-written file, also when the process ended
\* while it was writing
WritesAreAtomic ==
    \A name \in {NewsFile} \cup Range(ProcessedOutputs) :
        files[name] \notin {"empty", "partial"}

\* C23: a stage whose input file is absent returns without raising and
\* leaves an (empty or placeholder) output: process_all and
\* generate_daily_digest without api/news.json, generate_weekly_report
\* without one of the three files it reads
MissingInputGivesPlaceholder ==
    /\ files[NewsFile] = "absent" =>
           /\ ppc # "aborted"
           /\ ppc = "returned" => \E name \in Range(ProcessedOutputs) : files[name] = "new"
           /\ rpc = "exit" => files[DigestFile] = "new"
    /\ (\E name \in Range(WeeklyInputs) : files[name] = "absent") =>
           (rpc \in {"digest", "exit"}
                => \E name \in Range(WeeklyOutputs) : files[name] = "new")

----------------------------------------------------------------------------
(* Properties of the survivors of remove_duplicates *)

\* remove_duplicates of the free pipeline has just returned
FreeDeduplicated == pc = "dates" /\ pipeline = "free"

\* C29 as stated: of any two distinct survivors, neither has more than 0.6
\* of its first five words among those of the other, and no two survivors
\* have the same normalised title
NoDuplicateEitherWay ==
    FreeDeduplicated =>
        \A i, j \in 1..Len(deduped) :
            i # j => /\ ~ContainedAbove(Words5(deduped[i]), Words5(deduped[j]))
                     /\ NormalizedTitle(deduped[i].title)
                            # NormalizedTitle(deduped[j].title)

\* C29: no survivor has more than 0.6 of its first five words among those of
\* a survivor before it, and two survivors have the same normalised title
\* only when that title holds no word
NoDuplicateOfEarlier ==
    FreeDeduplicated =>
        \A i, j \in 1..Len(deduped) :
            i < j => /\ ~ContainedAbove(Words5(deduped[j]), Words5(deduped[i]))
                     /\ NormalizedTitle(deduped[i].title)
                            = NormalizedTitle(deduped[j].title)
                          => Words5(deduped[i]) = {}

\* Two survivors of which the earlier has all its words among those of the
\* later one
EarlierContainedInLater ==
    /\ FreeDeduplicated
    /\ \E i, j \in 1..Len(deduped) :
           /\ i < j
           /\ Words5(deduped[i]) # {}
           /\ Words5(deduped[i]) \subseteq Words5(deduped[j])

\* sub is seq with some of its elements left out
RECURSIVE IsSubsequence(_, _)
IsSubsequence(sub, seq) ==
    IF sub = <<>> THEN TRUE
    ELSE IF seq = <<>> THEN FALSE
    ELSE IF Head(sub) = Head(seq) THEN IsSubsequence(Tail(sub), Tail(seq))
    ELSE IsSubsequence(sub, Tail(seq))

\* The test remove_duplicates of pipeline p makes of an article against one
\* that came before it
DuplicateOf(p, later, earlier) ==
    IF p = "free" THEN ContainedAbove(Words5(later), Words5(earlier))
    ELSE TitleKey(later.title) = TitleKey(earlier.title)

\* Each of the two articles is a duplicate of the other
MutualDuplicates(p, a, b) == DuplicateOf(p, a, b) /\ DuplicateOf(p, b, a)

\* No article occurs twice in the list: an article is then found in the
\* output exactly when it survived
NoArticleTwice(articles) ==
    \A i, j \in 1..Len(articles) : articles[i] = articles[j] => i = j

\* What both statements of C30 share: the output is the input with some
\* articles left out, in the input's order and unmodified, and it begins
\* with the first input article
SubsequenceWithFirst ==
    /\ IsSubsequence(deduped, collected)
    /\ collected # <<>> => deduped # <<>> /\ deduped[1] = collected[1]

\* C30 as stated: remove_duplicates (both pipelines) returns an
\* order-preserving subsequence of unmodified input articles that contains
\* the first one, and of any group of mutually duplicate articles (here: of
\* any two, in a list that holds no article twice) the earliest survives
EarliestOfGroupSurvives ==
    pc = "dates" =>
        /\ SubsequenceWithFirst
        /\ NoArticleTwice(collected) =>
               \A i, j \in 1..Len(collected) :
                   (i < j /\ MutualDuplicates(pipeline, collected[i], collected[j]))
                       => collected[i] \in Range(deduped)

\* C30: remove_duplicates (both pipelines) returns an order-preserving
\* subsequence of unmodified input articles that contains the first one, and
\* every article that is a duplicate of no article before it survives
FirstOfItsKindSurvives ==
    pc = "dates" =>
        /\ SubsequenceWithFirst
        /\ \A j \in 1..Len(collected) :
               (\A i \in 1..(j - 1) :
                    ~DuplicateOf(pipeline, collected[j], collected[i]))
                   => collected[j] \in Range(deduped)

\* The earlier of two mutual duplicates was dropped, as a duplicate of an
\* article before both, and the later one survived
LaterOfGroupSurvived ==
    /\ pc = "dates"
    /\ NoArticleTwice(collected)
    /\ \E i, j \in 1..Len(collected) :
           /\ i < j
           /\ MutualDuplicates(pipeline, collected[i], collected[j])
           /\ collected[i] \notin Range(deduped)
           /\ collected[j] \in Range(deduped)

====
